---- MODULE Spec2Model ----
(***************************************************************************)
(* Model of the per-chat conversation engine of greed (src/worker.py):     *)
(* the Worker's inbox, its typed waits, the cart/checkout/top-up sequence  *)
(* and the committed store seen through the Worker's SQLAlchemy session;   *)
(* of the dispatch router (src/core.py, src/middleware/menu_handler.py)    *)
(* and of the menu manager (src/utils/menu_state.py).                      *)
(***************************************************************************)
EXTENDS Integers, Sequences, FiniteSets, TLC

(* ------------------------------ bounds --------------------------------- *)
MaxQueue == 2
MaxQty == 2
MaxConversations == 1
MaxWorkers == 2
MaxTime == 2
MaxMenus == 2
MaxPrompts == 3

(* ------------------------------ helpers -------------------------------- *)
None == "None"

RECURSIVE SumValues(_)
SumValues(s) == IF s = <<>> THEN 0 ELSE Head(s).value + SumValues(Tail(s))

RECURSIVE Repeat(_, _)
Repeat(x, n) == IF n <= 0 THEN <<>> ELSE <<x>> \o Repeat(x, n - 1)

SeqFilterOrder(s, o) == SelectSeq(s, LAMBDA r : r.order = o)

(* --------------------------- catalog and config ------------------------ *)
\* Rows of the products table: price None is "not purchasable".
Catalog ==
  <<[id |-> 1, price |-> 500, has_price |-> TRUE, deleted |-> FALSE],
    [id |-> 2, price |-> 300, has_price |-> TRUE, deleted |-> FALSE],
    [id |-> 3, price |-> 0, has_price |-> FALSE, deleted |-> FALSE],
    [id |-> 4, price |-> 200, has_price |-> TRUE, deleted |-> TRUE]>>

\* Configurations the worker is started with (cfg["Payments"], cfg["Appearance"]).
Configs ==
  {[credit_card_token |-> tok, refill_on_checkout |-> r,
    min_amount |-> mn, max_amount |-> 500,
    fee_percentage |-> 5, fee_fixed |-> 0] :
     tok \in BOOLEAN, r \in BOOLEAN, mn \in {100, 200}}

InitialCredits == {1000, 2000}

(* ------------------------------- events -------------------------------- *)
NoPayment ==
  [present |-> FALSE, total_amount |-> 0,
   telegram_payment_charge_id |-> None, provider_payment_charge_id |-> None]

\* A telegram.Update; message = FALSE stands for update.message is None,
\* text = None for message.text is None, callback_data = None for
\* update.callback_query is None.  message.photo is a sequence of sizes in
\* python-telegram-bot: it is empty, never None, for a message without photo.
Update(message, text, photo, sp, cb, mid, pcq) ==
  [kind |-> "Update", message |-> message, text |-> text, photo |-> photo,
   successful_payment |-> sp, callback_data |-> cb, message_id |-> mid,
   pre_checkout_query |-> pcq, reason |-> ""]

TextMessage(t) == Update(TRUE, t, "empty", NoPayment, None, 0, FALSE)
StickerMessage == Update(TRUE, None, "empty", NoPayment, None, 0, FALSE)
PhotoMessage == Update(TRUE, None, "sizes", NoPayment, None, 0, FALSE)
Callback(data, mid) == Update(FALSE, None, None, NoPayment, data, mid, FALSE)
PreCheckout == Update(FALSE, None, None, NoPayment, None, 0, TRUE)
SuccessfulPayment(a) ==
  Update(TRUE, None, "empty",
         [present |-> TRUE, total_amount |-> a,
          telegram_payment_charge_id |-> "tg", provider_payment_charge_id |-> "pv"],
         None, 0, FALSE)

CancelSignal ==
  [kind |-> "CancelSignal", message |-> FALSE, text |-> None, photo |-> None,
   successful_payment |-> NoPayment, callback_data |-> None, message_id |-> 0,
   pre_checkout_query |-> FALSE, reason |-> ""]

StopSignal(reason) ==
  [kind |-> "StopSignal", message |-> FALSE, text |-> None, photo |-> None,
   successful_payment |-> NoPayment, callback_data |-> None, message_id |-> 0,
   pre_checkout_query |-> FALSE, reason |-> reason]


(* ------------------------------ state ---------------------------------- *)
VARIABLES
  cfg,              \* self.cfg, fixed for the whole run
  dbCredit,         \* committed users.credit of the one user
  dbTransactions,   \* committed rows of the transactions table, in insertion order
  dbOrders,         \* committed order ids
  dbOrderItems,     \* committed rows of the order_items table
  session,          \* self.session: rows added but not yet committed, dirty credit
  pc,               \* the suspension point (or internal step) the worker is at
  queue,            \* self.queue
  cart,             \* cart of __order_menu: message_id -> [product, quantity]
  order,            \* id of the Order built by the current checkout, 0 if none
  credit_required,  \* local of __order_menu
  payment,          \* local of __make_payment: the SuccessfulPayment received
  invoice,          \* prices of the invoice sent by __make_payment
  sent,             \* localisation keys of the notices sent to the chat
  should_stop,      \* self._should_stop
  stop_reason,      \* self._stop_reason
  stopSignal,       \* reason of the StopSignal that ended the conversation
  checkout,         \* outcome of the checkout of this conversation
  nConv,            \* number of workers constructed so far
  hw,               \* a typed wait invoked on its own (WaitSpec only)
  invoice_payload,  \* self.invoice_payload
  payload,          \* payload of the invoice __make_payment sent, None if none
  chat_workers,     \* core.chat_workers: chat id -> worker, 0 for no entry
  chat_data,        \* context.chat_data[chat]['worker'], 0 for no entry
  workers,          \* the Worker objects constructed by the router, by number
  loop,             \* the worker whose run() the event loop is inside, 0 if none
  handled,          \* the handler the router ran last and how it answered
  now,              \* datetime.now(), in ticks
  menu_manager,     \* a MenuManager exercised on its own (MenuSpec only)
  feeCall,          \* the last call of __get_total_fee: its amount and result
  dbAdmins,         \* committed rows of the admins table
  notified,         \* user ids the new-order notification was sent to, in order
  admin,            \* self.admin: the Admin row as the session has it loaded
  keyboard,         \* labels of the admin keyboard sent last
  selection,        \* local of __admin_menu
  entered,          \* the method __admin_menu called for the selection, or None
  nMenus,           \* number of times the admin keyboard was sent
  prompts,          \* number of times __add_credit_cc asked for the amount
  process           \* the bot process: "running" or "exited"

vars == <<cfg, dbCredit, dbTransactions, dbOrders, dbOrderItems, session, pc,
          queue, cart, order, credit_required, payment, invoice, sent,
          should_stop, stop_reason, stopSignal, checkout, nConv, hw,
          invoice_payload, payload, chat_workers, chat_data, workers, loop,
          handled, now, menu_manager, feeCall, dbAdmins, notified, admin,
          keyboard, selection, entered, nMenus, prompts, process>>

\* the router, its workers and the clock; the menu manager exercised alone
routerVars == <<chat_workers, chat_data, workers, loop, handled, now, menu_manager>>

dbVars == <<dbCredit, dbTransactions, dbOrders, dbOrderItems>>

\* the admin menu of a worker
adminVars == <<admin, keyboard, selection, entered, nMenus>>

\* what only some of the steps touch: the fee computation, the admins table,
\* the notifications sent to admins, the admin menu, the top-up prompt and
\* the life of the process
sideVars == <<feeCall, dbAdmins, notified, adminVars, prompts, process>>

(* --------------------------- store and session ------------------------- *)
EmptySession ==
  [orders |-> {}, items |-> <<>>, transactions |-> <<>>,
   dirty |-> FALSE, credit |-> 0]

\* db.Transaction(...): a row of the transactions table; order = 0 is no order.
Transaction(value, ord, provider, tg, pv) ==
  [value |-> value, order |-> ord, provider |-> provider,
   telegram_charge_id |-> tg, provider_charge_id |-> pv, refunded |-> FALSE]

\* db.OrderItem(product=..., order=...)
OrderItem(product, ord) == [product |-> product, order |-> ord]

\* self.user.credit as the session sees it
UserCredit(s) == IF s.dirty THEN s.credit ELSE dbCredit

\* User.recalculate_credit(): credit becomes the sum of the user's transactions
RecalculateCredit(s) ==
  [s EXCEPT !.dirty = TRUE,
            !.credit = SumValues(dbTransactions) + SumValues(s.transactions)]

\* self.session.add(transaction)
SessionAddTransaction(s, t) ==
  [s EXCEPT !.transactions = Append(@, t)]

\* self.session.commit(): everything pending in the session becomes visible at once
Commit(s) ==
  /\ dbTransactions' = dbTransactions \o s.transactions
  /\ dbOrders' = dbOrders \cup s.orders
  /\ dbOrderItems' = dbOrderItems \o s.items
  /\ dbCredit' = IF s.dirty THEN s.credit ELSE dbCredit
  /\ session' = EmptySession

\* self.session.rollback() / self.session.close(): pending rows are dropped
Rollback ==
  /\ session' = EmptySession
  /\ UNCHANGED dbVars

(* ------------------------------ typed waits ---------------------------- *)
Continue == [status |-> "continue", type |-> None, update |-> CancelSignal]
Return(type, ev) == [status |-> "return", type |-> type, update |-> ev]

\* re.search(regex, text, re.DOTALL): the first capture group, or None
AmountRegex == "([0-9]+(?:[.,][0-9]+)?|menu_cancel)"
AmountTexts == {"300", "900", "50", "3.5", "menu_cancel"}
RegexSearch(regex, text) ==
  IF regex = "(.*)" THEN text
  ELSE IF text \in AmountTexts THEN text ELSE None

\* One iteration of the loop of each wait, on the update receive_next returned.
WaitForSpecificMessage(items, cancellable, update) ==
  IF update.kind = "CancelSignal"
  THEN IF cancellable THEN Return("CancelSignal", update) ELSE Continue
  ELSE IF ~update.message THEN Continue
  ELSE IF update.text = None THEN Continue
  ELSE IF update.text \notin items THEN Continue
  ELSE Return("Update", update)

WaitForRegex(regex, cancellable, update) ==
  IF update.kind = "CancelSignal"
  THEN IF cancellable THEN Return("CancelSignal", update) ELSE Continue
  ELSE IF ~update.message THEN Continue
  ELSE IF update.text = None THEN Continue
  ELSE IF RegexSearch(regex, update.text) = None THEN Continue
  ELSE Return("str", update)

WaitForPrecheckoutquery(cancellable, update) ==
  IF update.kind = "CancelSignal"
  THEN IF cancellable THEN Return("CancelSignal", update) ELSE Continue
  ELSE IF ~update.pre_checkout_query THEN Continue
  ELSE Return("PreCheckoutQuery", update)

WaitForSuccessfulpayment(cancellable, update) ==
  IF update.kind = "CancelSignal"
  THEN IF cancellable THEN Return("CancelSignal", update) ELSE Continue
  ELSE IF ~update.message THEN Continue
  ELSE IF ~update.successful_payment.present THEN Continue
  ELSE Return("SuccessfulPayment", update)

WaitForPhoto(cancellable, update) ==
  IF update.kind = "CancelSignal"
  THEN IF cancellable THEN Return("CancelSignal", update) ELSE Continue
  ELSE IF ~update.message THEN Continue
  ELSE IF update.photo = None THEN Continue
  ELSE Return("PhotoSizes", update)

WaitForInlinekeyboardCallback(cancellable, update) ==
  IF update.kind = "CancelSignal"
  THEN IF cancellable THEN Return("CancelSignal", update) ELSE Continue
  ELSE IF update.callback_data = None THEN Continue
  ELSE Return("CallbackQuery", update)


(* ------------------------------ cart ----------------------------------- *)
\* every product that is not deleted, with or without a price
ListedProductsMutant == SelectSeq(Catalog, LAMBDA p : ~p.deleted)

\* products = query(Product).filter_by(deleted=False); price None is skipped
ListedProducts == SelectSeq(Catalog, LAMBDA p : ~p.deleted /\ p.has_price)

\* cart[message_id] = [product, 0] for every listed product
NewCart ==
  [m \in 1..Len(ListedProducts) |-> [product |-> ListedProducts[m], quantity |-> 0]]

NoCart == [m \in {} |-> [product |-> Catalog[1], quantity |-> 0]]

RECURSIVE CartValueUpTo(_, _)
CartValueUpTo(c, n) ==
  IF n = 0 THEN 0
  ELSE CartValueUpTo(c, n - 1) + c[n].product.price * c[n].quantity

\* __get_cart_value(cart)
GetCartValue(c) == CartValueUpTo(c, Cardinality(DOMAIN c))

RECURSIVE OrderItemsUpTo(_, _, _)
OrderItemsUpTo(c, ord, n) ==
  IF n = 0 THEN <<>>
  ELSE OrderItemsUpTo(c, ord, n - 1)
         \o Repeat(OrderItem(c[n].product.id, ord), c[n].quantity)

RECURSIVE OneRowPerEntryUpTo(_, _, _)
OneRowPerEntryUpTo(c, ord, n) ==
  IF n = 0 THEN <<>>
  ELSE OneRowPerEntryUpTo(c, ord, n - 1)
         \o (IF c[n].quantity > 0 THEN <<OrderItem(c[n].product.id, ord)>> ELSE <<>>)

\* a single row for each cart entry, whatever its quantity
OrderItemsOfMutant(c, ord) == OneRowPerEntryUpTo(c, ord, Cardinality(DOMAIN c))

\* the OrderItem rows __order_menu adds for a cart: one row per unit
OrderItemsOf(c, ord) == OrderItemsUpTo(c, ord, Cardinality(DOMAIN c))

\* cart_add on the message the callback came from
CartAdd(c, mid) ==
  IF mid \notin DOMAIN c THEN c
  ELSE [c EXCEPT ![mid].quantity = @ + 1]

\* the copy removed without the test for a positive quantity
CartRemoveMutant(c, mid) ==
  IF mid \notin DOMAIN c THEN c
  ELSE [c EXCEPT ![mid].quantity = @ - 1]

\* cart_remove on the message the callback came from
CartRemove(c, mid) ==
  IF mid \notin DOMAIN c THEN c
  ELSE IF c[mid].quantity > 0 THEN [c EXCEPT ![mid].quantity = @ - 1]
  ELSE c

(* ------------------------------ payment -------------------------------- *)
\* int(x / 100) for an integer x: the quotient truncated towards zero
IntOfHundredth(x) == IF x >= 0 THEN x \div 100 ELSE 0 - ((0 - x) \div 100)

\* __get_total_fee(amount): amount is a Price, so amount * fee_percentage is
\* Price.__mul__, which multiplies by int(fee_percentage), the percentage
\* divided by 100 and truncated, and + fee_fixed is Price.__add__
GetTotalFee(amount) ==
  LET fee_percentage == IntOfHundredth(cfg.fee_percentage)
      total_fee == amount * fee_percentage + cfg.fee_fixed
  IN IF total_fee > 0 THEN total_fee ELSE 0

\* the fee line appended whatever the fee
InvoicePricesMutant(amount) == <<amount, GetTotalFee(amount)>>

\* prices of the invoice __make_payment sends for an amount
InvoicePrices(amount) ==
  LET fee == GetTotalFee(amount)
  IN IF fee > 0 THEN <<amount, fee>> ELSE <<amount>>

\* the refill condition without its upper bound
RefillOfferedMutant(required) ==
  /\ cfg.credit_card_token
  /\ cfg.refill_on_checkout
  /\ cfg.min_amount <= required

\* the refill condition of __order_menu
RefillOffered(required) ==
  /\ cfg.credit_card_token
  /\ cfg.refill_on_checkout
  /\ cfg.min_amount <= required
  /\ required <= cfg.max_amount


(* ---------------------------- menu manager ----------------------------- *)
\* MenuState: the values of the enumeration
MenuStates ==
  {"main", "order", "order_status", "add_credit", "language", "help", "bot_info"}

\* MenuManager.SESSION_TIMEOUT: timedelta(minutes=30), in ticks of 15 minutes
SESSION_TIMEOUT == 2

\* MenuManager.__init__ at time t
MenuManager(t) ==
  [current_state |-> None, previous_state |-> None, last_activity |-> t]

\* MenuManager.is_session_valid at time t
IsSessionValid(mm, t) == t - mm.last_activity < SESSION_TIMEOUT

\* MenuManager.update_activity at time t
UpdateActivity(mm, t) == [mm EXCEPT !.last_activity = t]

\* MenuManager.set_state(state) at time t
SetState(mm, state, t) ==
  UpdateActivity([mm EXCEPT !.previous_state = mm.current_state,
                            !.current_state = state], t)

\* MenuManager.get_state
GetState(mm) == mm.current_state

\* the previous state made current and kept as previous too
GoBackMutant(mm) ==
  IF mm.previous_state # None
  THEN [mm EXCEPT !.current_state = mm.previous_state]
  ELSE mm

\* MenuManager.go_back: swaps the two states when there is a previous one
GoBack(mm) ==
  IF mm.previous_state # None
  THEN [mm EXCEPT !.current_state = mm.previous_state,
                  !.previous_state = mm.current_state]
  ELSE mm

(* ------------------------------- router -------------------------------- *)
Chats == {1, 2}
NoWorker == 0

\* str(uuid.uuid4()): a fresh payload for the n-th invoice
Uuids == <<"uuid-1", "uuid-2", "uuid-3">>
Uuid4(n) == Uuids[((n - 1) % Len(Uuids)) + 1]

\* Worker.__init__ for a chat at time t; status is where run() stands,
\* session_open whether self.session has not been closed, notices what the
\* worker has sent or tried to send to its chat
Worker(chat, t) ==
  [chat |-> chat, queue |-> <<>>, should_stop |-> FALSE,
   stop_reason |-> "unknown", invoice_payload |-> None,
   menu_manager |-> SetState(MenuManager(t), "main", t),
   status |-> "constructed", session_open |-> TRUE, notices |-> {}]

\* Worker.stop(reason) on a worker object
StopWorker(w, reason) == [w EXCEPT !.stop_reason = reason, !.should_stop = TRUE]

\* old_worker.cleanup(): the existing worker is told to stop, reason "restarted"
Cleanup(w) == StopWorker(w, "restarted")

\* worker.show_order_menu and the other show_* methods: the menu is displayed
ShowMenu(state) == [answer |-> "menu", menu |-> state]

\* returned is the value a handler that returns one gave back, None otherwise
Handled(handler, chat, answer) ==
  [handler |-> handler, chat |-> chat, answer |-> answer, menu |-> None,
   returned |-> None]

NotHandled == Handled(None, 0, None)

\* nothing routed yet: the registries are empty, no worker is constructed
RouterIdle ==
  /\ chat_workers = [c \in Chats |-> NoWorker]
  /\ chat_data = [c \in Chats |-> NoWorker]
  /\ workers = <<>>
  /\ loop = 0
  /\ handled = NotHandled
  /\ now = 0

\* the menu manager of a worker right after Worker.__init__ at time 0
MenuIdle == menu_manager = SetState(MenuManager(0), "main", 0)

\* __get_total_fee has not been called
NoFee == [called |-> FALSE, amount |-> 0, value |-> 0]

\* a call of __get_total_fee(amount) and the value it returned
FeeCall(amount) == [called |-> TRUE, amount |-> amount, value |-> GetTotalFee(amount)]

\* db.Admin: a row of the admins table
Admin(user_id, edit_products, receive_orders, create_transactions, is_owner, live_mode) ==
  [user_id |-> user_id, edit_products |-> edit_products,
   receive_orders |-> receive_orders, create_transactions |-> create_transactions,
   is_owner |-> is_owner, live_mode |-> live_mode]

\* the admins tables a checkout runs against: three admins, some subscribed
\* to live orders and some not
Rosters ==
  {<<Admin(11, TRUE, TRUE, TRUE, TRUE, l),
     Admin(12, FALSE, TRUE, FALSE, FALSE, ~l),
     Admin(13, TRUE, FALSE, TRUE, FALSE, l)>> : l \in BOOLEAN}

\* every admin notified, subscribed or not
LiveAdminsMutant(admins) == admins

\* session.query(db.Admin).filter_by(live_mode=True).all()
LiveAdmins(admins) == SelectSeq(admins, LAMBDA a : a.live_mode)

\* the chats __order_notify_admins sends notification_order_placed to
NotifiedAdmins(admins) ==
  [i \in 1..Len(LiveAdmins(admins)) |-> LiveAdmins(admins)[i].user_id]

\* self.admin of a user with no row in the admins table
NoAdmin == Admin(0, FALSE, FALSE, FALSE, FALSE, FALSE)

\* no admin menu has been opened
AdminIdle ==
  /\ admin = NoAdmin
  /\ keyboard = {}
  /\ selection = None
  /\ entered = None
  /\ nMenus = 0

SideIdle ==
  /\ feeCall = NoFee /\ dbAdmins = <<>> /\ notified = <<>> /\ AdminIdle
  /\ prompts = 0 /\ process = "running"

(* --------------------------- the conversation -------------------------- *)
WaitingPcs ==
  {"user_menu", "cart", "notes", "payment", "add_credit_menu", "add_credit_cc",
   "topup_payment"}
RunningPcs == WaitingPcs \cup {"after_payment", "order_transaction"}

\* the six labels __user_menu waits for
UserMenuItems ==
  {"menu_order", "menu_order_status", "menu_add_credit", "menu_language",
   "menu_help", "menu_bot_info"}

\* no wait is being exercised on its own
HwIdle ==
  [site |-> None, kind |-> None, cancellable |-> FALSE, items |-> {},
   regex |-> None, status |-> "idle", update |-> CancelSignal, has_read |-> FALSE,
   result |-> Continue]

Init ==
  /\ cfg \in Configs
  /\ dbCredit \in InitialCredits
  /\ dbTransactions = <<Transaction(dbCredit, 0, None, None, None)>>
  /\ dbOrders = {}
  /\ dbOrderItems = <<>>
  /\ session = EmptySession
  /\ pc = "idle"
  /\ queue = <<>>
  /\ cart = NoCart
  /\ order = 0
  /\ credit_required = 0
  /\ payment = NoPayment
  /\ invoice = <<>>
  /\ sent = {}
  /\ should_stop = FALSE
  /\ stop_reason = "unknown"
  /\ stopSignal = None
  /\ checkout = "none"
  /\ nConv = 0
  /\ hw = HwIdle
  /\ invoice_payload = None
  /\ payload = None
  /\ RouterIdle
  /\ MenuIdle
  /\ feeCall = NoFee
  /\ dbAdmins \in Rosters
  /\ notified = <<>>
  /\ AdminIdle
  /\ prompts = 0
  /\ process = "running"

\* Worker.__init__ and run() up to the wait of __user_menu, for a user who
\* is registered and is not an admin
Start ==
  /\ pc \in {"idle", "done"}
  /\ nConv < MaxConversations
  /\ nConv' = nConv + 1
  /\ queue' = <<>>
  /\ Commit(EmptySession)
  /\ pc' = "user_menu"
  /\ cart' = NoCart
  /\ order' = 0
  /\ credit_required' = 0
  /\ payment' = NoPayment
  /\ invoice' = <<>>
  /\ sent' = {"conversation_open_user_menu"}
  /\ should_stop' = FALSE
  /\ stop_reason' = "unknown"
  /\ stopSignal' = None
  /\ checkout' = "none"
  /\ invoice_payload' = None
  /\ payload' = None
  /\ UNCHANGED <<cfg, hw, routerVars, sideVars>>

\* Worker.stop(reason)
Stop(reason) ==
  /\ pc \in RunningPcs
  /\ stop_reason' = reason
  /\ should_stop' = TRUE
  /\ UNCHANGED <<cfg, dbVars, session, pc, queue, cart, order, credit_required,
                 payment, invoice, sent, stopSignal, checkout, nConv, hw,
                 invoice_payload, payload, routerVars, sideVars>>

\* cart_add callbacks already waiting in the inbox for a message
QueuedAdds(mid) ==
  Len(SelectSeq(queue, LAMBDA e : e.callback_data = "cart_add" /\ e.message_id = mid))

\* self.queue.put(update) by the router; the quantity bound caps cart_add presses
QueuePut(update) ==
  /\ pc \in RunningPcs
  /\ Len(queue) < MaxQueue
  /\ update.callback_data = "cart_add" /\ update.message_id \in DOMAIN cart
       => cart[update.message_id].quantity + QueuedAdds(update.message_id) < MaxQty
  /\ queue' = Append(queue, update)
  /\ UNCHANGED <<cfg, dbVars, session, pc, cart, order, credit_required, payment,
                 invoice, sent, should_stop, stop_reason, stopSignal, checkout,
                 nConv, hw,
                 invoice_payload, payload, routerVars, sideVars>>

\* the tail of run(): the closing notice, then self.session.close()
Close(notices) ==
  /\ sent' = sent \cup notices \cup {"conversation_closed"}
  /\ Rollback
  /\ pc' = "done"

\* the except branch of run(): the fatal notice, then the tail of run()
Fatal == Close({"fatal_conversation_exception"})

\* __graceful_stop(stop_trigger): does not return to the wait; the
\* conversation winds down, pending rows are dropped, the closing notice is sent
GracefulStop(stop_trigger) ==
  /\ stopSignal' = stop_trigger.reason
  /\ Close({})
  /\ UNCHANGED <<cfg, cart, order, credit_required, payment, invoice,
                 should_stop, stop_reason, checkout, nConv, hw,
                 invoice_payload, payload, routerVars, sideVars>>

\* a wait that discarded the update and loops
KeepWaiting ==
  UNCHANGED <<cfg, dbVars, session, pc, cart, order, credit_required, payment,
              invoice, sent, should_stop, stop_reason, stopSignal, checkout,
              nConv, hw,
              invoice_payload, payload, routerVars, sideVars>>

\* the timeout falling through to the unbound data of __receive_next_update
TimeoutMutant ==
  /\ pc \in WaitingPcs
  /\ queue = <<>>
  /\ Fatal
  /\ UNCHANGED <<cfg, queue, cart, order, credit_required, payment, invoice,
                 should_stop, stop_reason, stopSignal, checkout, nConv, hw,
                 invoice_payload, payload, routerVars, sideVars>>

\* __receive_next_update when the inbox stays empty for conversation_timeout
Timeout ==
  /\ pc \in WaitingPcs
  /\ queue = <<>>
  /\ GracefulStop(StopSignal("timeout"))
  /\ UNCHANGED queue

\* __user_menu: the wait for a menu label and the dispatch on the selection
UserMenu ==
  /\ pc = "user_menu"
  /\ queue # <<>>
  /\ queue' = Tail(queue)
  /\ LET update == Head(queue)
         r == WaitForSpecificMessage(UserMenuItems, TRUE, update)
     IN IF update.kind = "StopSignal" THEN GracefulStop(update)
        ELSE IF r.status = "continue" THEN KeepWaiting
        ELSE IF r.type = "CancelSignal"
        THEN \* update.message on a CancelSignal raises AttributeError
             /\ Fatal
             /\ UNCHANGED <<cfg, cart, order, credit_required, payment, invoice,
                            should_stop, stop_reason, stopSignal, checkout, nConv, hw,
                            invoice_payload, payload, routerVars, sideVars>>
        ELSE IF r.update.text = "menu_order"
        THEN \* __order_menu up to its first wait
             /\ cart' = NewCart
             /\ pc' = "cart"
             /\ sent' = sent \cup {"conversation_cart_actions"}
             /\ UNCHANGED <<cfg, dbVars, session, order, credit_required, payment,
                            invoice, should_stop, stop_reason, stopSignal,
                            checkout, nConv, hw,
                            invoice_payload, payload, routerVars, sideVars>>
        ELSE \* __order_status, then back in run()
             /\ r.update.text = "menu_order_status"
             /\ Close(IF dbOrders = {} THEN {"error_no_orders"} ELSE {"order_status"})
             /\ UNCHANGED <<cfg, cart, order, credit_required, payment, invoice,
                            should_stop, stop_reason, stopSignal, checkout, nConv, hw,
                            invoice_payload, payload, routerVars, sideVars>>

\* __order_menu: the cart-building loop
OrderMenuCart ==
  /\ pc = "cart"
  /\ queue # <<>>
  /\ queue' = Tail(queue)
  /\ LET update == Head(queue)
         r == WaitForInlinekeyboardCallback(FALSE, update)
         callback == r.update
     IN IF update.kind = "StopSignal" THEN GracefulStop(update)
        ELSE IF r.status = "continue" THEN KeepWaiting
        ELSE IF callback.callback_data = "cart_cancel"
        THEN /\ Close({})
             /\ UNCHANGED <<cfg, cart, order, credit_required, payment, invoice,
                            should_stop, stop_reason, stopSignal, checkout, nConv, hw,
                            invoice_payload, payload, routerVars, sideVars>>
        ELSE IF callback.callback_data = "cart_add"
        THEN /\ cart' = CartAdd(cart, callback.message_id)
             /\ UNCHANGED <<cfg, dbVars, session, pc, order, credit_required,
                            payment, invoice, sent, should_stop, stop_reason,
                            stopSignal, checkout, nConv, hw,
                            invoice_payload, payload, routerVars, sideVars>>
        ELSE IF callback.callback_data = "cart_remove"
        THEN /\ cart' = CartRemove(cart, callback.message_id)
             /\ UNCHANGED <<cfg, dbVars, session, pc, order, credit_required,
                            payment, invoice, sent, should_stop, stop_reason,
                            stopSignal, checkout, nConv, hw,
                            invoice_payload, payload, routerVars, sideVars>>
        ELSE IF callback.callback_data = "cart_done"
        THEN /\ pc' = "notes"
             /\ sent' = sent \cup {"ask_order_notes"}
             /\ UNCHANGED <<cfg, dbVars, session, cart, order, credit_required,
                            payment, invoice, should_stop, stop_reason,
                            stopSignal, checkout, nConv, hw,
                            invoice_payload, payload, routerVars, sideVars>>
        ELSE KeepWaiting


\* the cart value passed without its minus sign
DebitValueMutant(c) == GetCartValue(c)

\* the debit __order_menu passes to __order_transaction
DebitValue(c) == 0 - GetCartValue(c)

\* __order_menu after the optional top-up: roll back when the credit is still
\* short, else __order_transaction up to its first commit
CheckBalance(s, ord, notices) ==
  IF UserCredit(s) < GetCartValue(cart)
  THEN /\ Close(notices)
       /\ checkout' = "aborted"
  ELSE /\ Commit(SessionAddTransaction(s,
                   Transaction(DebitValue(cart), ord, None, None, None)))
       /\ sent' = sent \cup notices
       /\ pc' = "order_transaction"
       /\ checkout' = "building"

\* the payment wait called with cancellable=True
MakePaymentCancellableMutant == TRUE

\* the wait __make_payment suspends at
MakePaymentCancellable == FALSE

\* the Transaction recorded with the amount the invoice asked for
PaymentTransactionMutant(p) ==
  Transaction(credit_required, 0, "Credit Card",
              p.telegram_payment_charge_id, p.provider_payment_charge_id)

\* the Transaction __make_payment creates from the SuccessfulPayment received
PaymentTransaction(p) ==
  Transaction(p.total_amount, 0, "Credit Card",
              p.telegram_payment_charge_id, p.provider_payment_charge_id)

\* __order_menu: the notes wait, the Order and its OrderItems, the balance check
OrderMenuNotes ==
  /\ pc = "notes"
  /\ queue # <<>>
  /\ queue' = Tail(queue)
  /\ LET update == Head(queue)
         r == WaitForRegex("(.*)", TRUE, update)
         ord == Cardinality(dbOrders) + 1
         s1 == [session EXCEPT !.orders = @ \cup {ord},
                               !.items = @ \o OrderItemsOf(cart, ord)]
         required == GetCartValue(cart) - UserCredit(s1)
     IN IF update.kind = "StopSignal" THEN GracefulStop(update)
        ELSE IF r.status = "continue" THEN KeepWaiting
        ELSE /\ order' = ord
             /\ credit_required' = required
             /\ IF required > 0 /\ RefillOffered(required)
                THEN \* __make_payment up to its wait
                     /\ invoice' = InvoicePrices(required)
                     /\ feeCall' = FeeCall(required)
                     /\ payload' = Uuid4(ord)
                     /\ session' = s1
                     /\ sent' = sent \cup {"error_not_enough_credit", "invoice"}
                     /\ pc' = "payment"
                     /\ checkout' = "building"
                     /\ UNCHANGED dbVars
                ELSE /\ CheckBalance(s1, ord,
                          IF required > 0 THEN {"error_not_enough_credit"} ELSE {})
                     /\ UNCHANGED <<invoice, payload, feeCall>>
             /\ UNCHANGED <<cfg, cart, payment, should_stop, stop_reason,
                            stopSignal, nConv, hw, invoice_payload, routerVars,
                            dbAdmins, notified, adminVars, prompts, process>>

\* __make_payment: the wait for the payment, the Transaction, the commit
MakePayment ==
  /\ pc = "payment"
  /\ queue # <<>>
  /\ queue' = Tail(queue)
  /\ LET update == Head(queue)
         r == WaitForSuccessfulpayment(MakePaymentCancellable, update)
         p == r.update.successful_payment
         transaction == PaymentTransaction(p)
     IN IF update.kind = "StopSignal" THEN GracefulStop(update)
        ELSE IF r.status = "continue" THEN KeepWaiting
        ELSE IF r.type = "CancelSignal"
        THEN \* payment.total_amount on a CancelSignal raises AttributeError
             /\ Fatal
             /\ UNCHANGED <<cfg, cart, order, credit_required, payment, invoice,
                            should_stop, stop_reason, stopSignal, checkout, nConv, hw,
                            invoice_payload, payload, routerVars, sideVars>>
        ELSE /\ payment' = p
             /\ Commit(RecalculateCredit(SessionAddTransaction(session, transaction)))
             /\ sent' = sent \cup {"success_transaction_created"}
             /\ pc' = "after_payment"
             /\ UNCHANGED <<cfg, cart, order, credit_required, invoice,
                            should_stop, stop_reason, stopSignal, checkout, nConv, hw,
                            invoice_payload, payload, routerVars, sideVars>>

\* __order_menu resumed after __make_payment returned
OrderMenuAfterPayment ==
  /\ pc = "after_payment"
  /\ CheckBalance(session, order, {})
  /\ UNCHANGED <<cfg, queue, cart, order, credit_required, payment, invoice,
                 should_stop, stop_reason, stopSignal, nConv, hw,
                 invoice_payload, payload, routerVars, sideVars>>

\* __order_transaction after its first commit: recalculate, commit, then
\* __order_notify_admins; then __order_menu and __user_menu return and run()
\* closes the conversation
OrderTransaction ==
  /\ pc = "order_transaction"
  /\ Commit(RecalculateCredit(session))
  /\ sent' = sent \cup {"success_order_created", "conversation_closed"}
  /\ notified' = notified \o NotifiedAdmins(dbAdmins)
  /\ pc' = "done"
  /\ checkout' = "completed"
  /\ UNCHANGED <<cfg, queue, cart, order, credit_required, payment, invoice,
                 should_stop, stop_reason, stopSignal, nConv, hw,
                 invoice_payload, payload, routerVars, feeCall, dbAdmins,
                 adminVars, prompts, process>>

(* ------------------------------ inputs --------------------------------- *)
PaymentAmounts == {100, 315, 525}

Events ==
  {TextMessage("menu_order"), TextMessage("hello"), CancelSignal,
   Callback("cart_add", 1), Callback("cart_add", 2), Callback("cart_add", 9),
   Callback("cart_remove", 1), Callback("cart_done", 0), Callback("cart_cancel", 0)}
  \cup {SuccessfulPayment(a) : a \in PaymentAmounts}

Next ==
  \/ Start
  \/ \E reason \in {"restarted"} : Stop(reason)
  \/ \E update \in Events : QueuePut(update)
  \/ Timeout
  \/ UserMenu
  \/ OrderMenuCart
  \/ OrderMenuNotes
  \/ MakePayment
  \/ OrderMenuAfterPayment
  \/ OrderTransaction

Spec == Init /\ [][Next]_vars

(* ------------------- the checkout with failing commits ----------------- *)
\* self.session.commit() raises: the exception unwinds to the except branch of
\* run(), which sends the fatal notice and the closing notice and closes the
\* session; nothing pending reaches the store
CommitRaises ==
  /\ Fatal
  /\ checkout' = "failed"

\* the commit of __make_payment raises
MakePaymentCommitFails ==
  /\ pc = "payment"
  /\ queue # <<>>
  /\ LET update == Head(queue)
         r == WaitForSuccessfulpayment(MakePaymentCancellable, update)
     IN /\ update.kind # "StopSignal"
        /\ r.status = "return"
        /\ r.type # "CancelSignal"
        /\ payment' = r.update.successful_payment
  /\ queue' = Tail(queue)
  /\ CommitRaises
  /\ UNCHANGED <<cfg, cart, order, credit_required, invoice, should_stop,
                 stop_reason, stopSignal, nConv, hw, invoice_payload, payload,
                 routerVars, sideVars>>

\* the first commit of __order_transaction raises, the checkout having gone
\* from the notes to the balance check without a top-up
OrderMenuNotesCommitFails ==
  /\ pc = "notes"
  /\ queue # <<>>
  /\ LET update == Head(queue)
         r == WaitForRegex("(.*)", TRUE, update)
         ord == Cardinality(dbOrders) + 1
         s1 == [session EXCEPT !.orders = @ \cup {ord},
                               !.items = @ \o OrderItemsOf(cart, ord)]
         required == GetCartValue(cart) - UserCredit(s1)
     IN /\ update.kind # "StopSignal"
        /\ r.status = "return"
        /\ required <= 0
        /\ order' = ord
        /\ credit_required' = required
  /\ queue' = Tail(queue)
  /\ CommitRaises
  /\ UNCHANGED <<cfg, cart, payment, invoice, should_stop, stop_reason,
                 stopSignal, nConv, hw, invoice_payload, payload, routerVars,
                 sideVars>>

\* the first commit of __order_transaction raises after a top-up
AfterPaymentCommitFails ==
  /\ pc = "after_payment"
  /\ UserCredit(session) >= GetCartValue(cart)
  /\ CommitRaises
  /\ UNCHANGED <<cfg, queue, cart, order, credit_required, payment, invoice,
                 should_stop, stop_reason, stopSignal, nConv, hw,
                 invoice_payload, payload, routerVars, sideVars>>

\* the second commit of __order_transaction raises
OrderTransactionCommitFails ==
  /\ pc = "order_transaction"
  /\ CommitRaises
  /\ UNCHANGED <<cfg, queue, cart, order, credit_required, payment, invoice,
                 should_stop, stop_reason, stopSignal, nConv, hw,
                 invoice_payload, payload, routerVars, sideVars>>

CommitNext ==
  \/ Start
  \/ \E reason \in {"restarted"} : Stop(reason)
  \/ \E update \in Events : QueuePut(update)
  \/ Timeout
  \/ UserMenu
  \/ OrderMenuCart
  \/ OrderMenuNotes
  \/ MakePayment
  \/ OrderMenuAfterPayment
  \/ OrderTransaction
  \/ MakePaymentCommitFails
  \/ OrderMenuNotesCommitFails
  \/ AfterPaymentCommitFails
  \/ OrderTransactionCommitFails

CommitSpec == Init /\ [][CommitNext]_vars


(* ------------------------- the card top-up prompt ---------------------- *)
\* Price(number): int(number) of a string; ok is FALSE where int() raises
\* ValueError (a decimal point, a decimal comma, a label)
PriceOf(number) ==
  IF number = "300" THEN [ok |-> TRUE, value |-> 300]
  ELSE IF number = "900" THEN [ok |-> TRUE, value |-> 900]
  ELSE IF number = "50" THEN [ok |-> TRUE, value |-> 50]
  ELSE [ok |-> FALSE, value |-> 0]

\* configurations of a shop that takes cards; CreditCard says whether the
\* configuration also has a top-level table cfg["CreditCard"]
TopUpConfigs ==
  {[credit_card_token |-> TRUE, refill_on_checkout |-> r,
    min_amount |-> mn, max_amount |-> 500,
    fee_percentage |-> 5, fee_fixed |-> 0, CreditCard |-> t] :
     r \in BOOLEAN, mn \in {100, 200}, t \in BOOLEAN}

\* __add_credit_cc has been called and has asked for the amount once
TopUpInit ==
  /\ cfg \in TopUpConfigs
  /\ dbCredit \in InitialCredits
  /\ dbTransactions = <<Transaction(dbCredit, 0, None, None, None)>>
  /\ dbOrders = {}
  /\ dbOrderItems = <<>>
  /\ session = EmptySession
  /\ pc = "add_credit_cc"
  /\ queue = <<>>
  /\ cart = NoCart
  /\ order = 0
  /\ credit_required = 0
  /\ payment = NoPayment
  /\ invoice = <<>>
  /\ sent = {"payment_cc_amount"}
  /\ should_stop = FALSE
  /\ stop_reason = "unknown"
  /\ stopSignal = None
  /\ checkout = "none"
  /\ nConv = 1
  /\ hw = HwIdle
  /\ invoice_payload = None
  /\ payload = None
  /\ RouterIdle
  /\ MenuIdle
  /\ feeCall = NoFee /\ dbAdmins = <<>> /\ notified = <<>> /\ AdminIdle
  /\ prompts = 1
  /\ process = "running"

\* the error message of an amount out of range: its argument reads
\* self.cfg["CreditCard"], which raises KeyError where there is no such table;
\* else the notice is sent and the loop asks for the amount again
AmountRejected(notice) ==
  IF cfg.CreditCard
  THEN /\ sent' = sent \cup {notice, "payment_cc_amount"}
       /\ prompts' = prompts + 1
       /\ UNCHANGED <<pc, dbVars, session>>
  ELSE /\ Fatal
       /\ UNCHANGED prompts

\* __add_credit_cc: one pass of the loop, from the wait for the amount on
AddCreditCc ==
  /\ pc = "add_credit_cc"
  /\ prompts < MaxPrompts
  /\ queue # <<>>
  /\ queue' = Tail(queue)
  /\ LET update == Head(queue)
         r == WaitForRegex(AmountRegex, TRUE, update)
         selection_ == RegexSearch(AmountRegex, update.text)
         value == PriceOf(selection_)
     IN IF update.kind = "StopSignal"
        THEN GracefulStop(update) /\ UNCHANGED <<feeCall, prompts>>
        ELSE IF r.status = "continue"
        THEN KeepWaiting /\ UNCHANGED <<feeCall, prompts>>
        ELSE IF r.type = "CancelSignal"
        THEN \* cancelled: the method returns, and so do the menus above it
             /\ Close({})
             /\ UNCHANGED <<cfg, cart, order, credit_required, payment, invoice,
                            should_stop, stop_reason, stopSignal, checkout, nConv,
                            hw, invoice_payload, payload, routerVars, feeCall,
                            prompts>>
        ELSE IF ~value.ok
        THEN \* int() of the string raises ValueError
             /\ Fatal
             /\ UNCHANGED <<cfg, cart, order, credit_required, payment, invoice,
                            should_stop, stop_reason, stopSignal, checkout, nConv,
                            hw, invoice_payload, payload, routerVars, feeCall,
                            prompts>>
        ELSE IF value.value > cfg.max_amount
        THEN /\ AmountRejected("error_payment_amount_over_max")
             /\ UNCHANGED <<cfg, cart, order, credit_required, payment, invoice,
                            should_stop, stop_reason, stopSignal, checkout, nConv,
                            hw, invoice_payload, payload, routerVars, feeCall>>
        ELSE IF value.value < cfg.min_amount
        THEN /\ AmountRejected("error_payment_amount_under_min")
             /\ UNCHANGED <<cfg, cart, order, credit_required, payment, invoice,
                            should_stop, stop_reason, stopSignal, checkout, nConv,
                            hw, invoice_payload, payload, routerVars, feeCall>>
        ELSE \* __make_payment(amount=value) up to its wait
             /\ invoice' = InvoicePrices(value.value)
             /\ feeCall' = FeeCall(value.value)
             /\ payload' = Uuid4(1)
             /\ sent' = sent \cup {"invoice"}
             /\ pc' = "topup_payment"
             /\ UNCHANGED <<cfg, dbVars, session, cart, order, credit_required,
                            payment, should_stop, stop_reason, stopSignal,
                            checkout, nConv, hw, invoice_payload, routerVars,
                            prompts>>
  /\ UNCHANGED <<dbAdmins, notified, adminVars, process>>

\* __make_payment called by __add_credit_cc: the wait for the payment, the
\* Transaction, the commit; then the menus return and run() closes
TopUpPayment ==
  /\ pc = "topup_payment"
  /\ queue # <<>>
  /\ queue' = Tail(queue)
  /\ LET update == Head(queue)
         r == WaitForSuccessfulpayment(MakePaymentCancellable, update)
         p == r.update.successful_payment
         transaction == PaymentTransaction(p)
     IN IF update.kind = "StopSignal" THEN GracefulStop(update)
        ELSE IF r.status = "continue" THEN KeepWaiting
        ELSE IF r.type = "CancelSignal"
        THEN /\ Fatal
             /\ UNCHANGED <<cfg, cart, order, credit_required, payment, invoice,
                            should_stop, stop_reason, stopSignal, checkout, nConv, hw,
                            invoice_payload, payload, routerVars, sideVars>>
        ELSE /\ payment' = p
             /\ Commit(RecalculateCredit(SessionAddTransaction(session, transaction)))
             /\ sent' = sent \cup {"success_transaction_created", "conversation_closed"}
             /\ pc' = "done"
             /\ UNCHANGED <<cfg, cart, order, credit_required, invoice,
                            should_stop, stop_reason, stopSignal, checkout, nConv, hw,
                            invoice_payload, payload, routerVars, sideVars>>

TopUpEvents ==
  {TextMessage(t) : t \in (AmountTexts \ {"menu_cancel"}) \cup {"hello"}}
  \cup {CancelSignal, SuccessfulPayment(300)}

TopUpNext ==
  \/ \E reason \in {"restarted"} : Stop(reason)
  \/ \E update \in TopUpEvents : QueuePut(update)
  \/ Timeout
  \/ AddCreditCc
  \/ TopUpPayment

TopUpSpec == TopUpInit /\ [][TopUpNext]_vars

(* ------------------- the typed waits, one call at a time --------------- *)
WaitKinds ==
  {"specific_message", "regex", "precheckoutquery", "successfulpayment",
   "photo", "inlinekeyboard_callback"}

WaitCall(site, kind, cancellable, items, regex) ==
  [site |-> site, kind |-> kind, cancellable |-> cancellable, items |-> items,
   regex |-> regex, status |-> "waiting", update |-> CancelSignal,
   has_read |-> FALSE, result |-> Continue]

\* the waits as the menus of the worker call them
CallSites ==
  {WaitCall("__user_menu", "specific_message", TRUE, UserMenuItems, None),
   WaitCall("__order_menu", "inlinekeyboard_callback", FALSE, {}, None),
   WaitCall("__order_menu", "regex", TRUE, {}, "(.*)"),
   WaitCall("__add_credit_menu", "specific_message", TRUE,
            {"menu_cash", "menu_credit_card", "menu_cancel"}, None),
   WaitCall("__add_credit_cc", "regex", TRUE, {}, AmountRegex),
   WaitCall("__make_payment", "successfulpayment", MakePaymentCancellable, {}, None)}

\* every wait with either value of its cancellable parameter
DirectCalls ==
  {WaitCall("direct", k, c, UserMenuItems, AmountRegex) :
     k \in WaitKinds, c \in BOOLEAN}

\* the wait w applied to one update
TypedWait(w, update) ==
  CASE w.kind = "specific_message" ->
         WaitForSpecificMessage(w.items, w.cancellable, update)
    [] w.kind = "regex" -> WaitForRegex(w.regex, w.cancellable, update)
    [] w.kind = "precheckoutquery" -> WaitForPrecheckoutquery(w.cancellable, update)
    [] w.kind = "successfulpayment" -> WaitForSuccessfulpayment(w.cancellable, update)
    [] w.kind = "photo" -> WaitForPhoto(w.cancellable, update)
    [] w.kind = "inlinekeyboard_callback" ->
         WaitForInlinekeyboardCallback(w.cancellable, update)

WaitEvents ==
  {TextMessage("menu_order"), TextMessage("hello"), TextMessage("300"),
   StickerMessage, PhotoMessage, Callback("cart_add", 1), PreCheckout,
   SuccessfulPayment(315), CancelSignal, StopSignal("restarted")}

WaitInit ==
  /\ cfg \in {c \in Configs : c.credit_card_token /\ c.refill_on_checkout}
  /\ dbCredit \in InitialCredits
  /\ dbTransactions = <<Transaction(dbCredit, 0, None, None, None)>>
  /\ dbOrders = {}
  /\ dbOrderItems = <<>>
  /\ session = EmptySession
  /\ pc = "idle"
  /\ queue = <<>>
  /\ cart = NoCart
  /\ order = 0
  /\ credit_required = 0
  /\ payment = NoPayment
  /\ invoice = <<>>
  /\ sent = {}
  /\ should_stop = FALSE
  /\ stop_reason = "unknown"
  /\ stopSignal = None
  /\ checkout = "none"
  /\ nConv = 1
  /\ hw \in CallSites \cup DirectCalls
  /\ invoice_payload = None
  /\ payload = None
  /\ RouterIdle
  /\ MenuIdle
  /\ SideIdle

\* the update put at the front of the inbox, as a LIFO queue would
WaitPutMutant(update) ==
  /\ hw.status = "waiting"
  /\ Len(queue) < MaxQueue
  /\ queue' = <<update>> \o queue
  /\ UNCHANGED <<cfg, dbVars, session, pc, cart, order, credit_required, payment,
                 invoice, sent, should_stop, stop_reason, stopSignal, checkout,
                 nConv, hw, invoice_payload, payload, routerVars, sideVars>>

\* self.queue.put(update) while the wait is suspended
WaitPut(update) ==
  /\ hw.status = "waiting"
  /\ Len(queue) < MaxQueue
  /\ queue' = Append(queue, update)
  /\ UNCHANGED <<cfg, dbVars, session, pc, cart, order, credit_required, payment,
                 invoice, sent, should_stop, stop_reason, stopSignal, checkout,
                 nConv, hw,
                 invoice_payload, payload, routerVars, sideVars>>

\* one pass of the loop of the wait: __receive_next_update, then the checks
WaitReceive ==
  /\ hw.status = "waiting"
  /\ queue # <<>>
  /\ queue' = Tail(queue)
  /\ LET update == Head(queue)
         r == TypedWait(hw, update)
         read == [hw EXCEPT !.update = update, !.has_read = TRUE]
     IN IF update.kind = "StopSignal"
        THEN /\ hw' = [read EXCEPT !.status = "stopped"]
             /\ stopSignal' = update.reason
             /\ Close({})
             /\ UNCHANGED <<cfg, cart, order, credit_required, payment, invoice,
                            should_stop, stop_reason, checkout, nConv,
                            invoice_payload, payload, routerVars, sideVars>>
        ELSE /\ hw' = IF r.status = "continue" THEN read
                      ELSE [read EXCEPT !.status = "returned", !.result = r]
             /\ UNCHANGED <<cfg, dbVars, session, pc, cart, order, credit_required,
                            payment, invoice, sent, should_stop, stop_reason,
                            stopSignal, checkout, nConv,
                            invoice_payload, payload, routerVars, sideVars>>

\* the inbox stayed empty for conversation_timeout while the wait was suspended
WaitTimeout ==
  /\ hw.status = "waiting"
  /\ queue = <<>>
  /\ hw' = [hw EXCEPT !.status = "stopped"]
  /\ stopSignal' = "timeout"
  /\ Close({})
  /\ UNCHANGED <<cfg, queue, cart, order, credit_required, payment, invoice,
                 should_stop, stop_reason, checkout, nConv,
                 invoice_payload, payload, routerVars, sideVars>>

WaitNext ==
  \/ \E update \in WaitEvents : WaitPut(update)
  \/ WaitReceive
  \/ WaitTimeout

WaitSpec == WaitInit /\ [][WaitNext]_vars


(* ------------------------- the dispatch router ------------------------- *)
conversationVars ==
  <<cfg, dbVars, session, pc, queue, cart, order, credit_required, payment,
    invoice, sent, should_stop, stop_reason, stopSignal, checkout, nConv, hw,
    invoice_payload, payload>>

\* the one user has a credit of 1000 and no worker has been constructed
WorkerIdle ==
  /\ dbCredit = 1000
  /\ dbTransactions = <<Transaction(dbCredit, 0, None, None, None)>>
  /\ dbOrders = {}
  /\ dbOrderItems = <<>>
  /\ session = EmptySession
  /\ pc = "idle"
  /\ queue = <<>>
  /\ cart = NoCart
  /\ order = 0
  /\ credit_required = 0
  /\ payment = NoPayment
  /\ invoice = <<>>
  /\ sent = {}
  /\ should_stop = FALSE
  /\ stop_reason = "unknown"
  /\ stopSignal = None
  /\ checkout = "none"
  /\ nConv = 0
  /\ hw = HwIdle
  /\ invoice_payload = None
  /\ payload = None

\* no conversation of the worker-level model is running
ConversationIdle ==
  /\ cfg \in {c \in Configs : c.credit_card_token /\ c.refill_on_checkout}
  /\ WorkerIdle

RouterInit == ConversationIdle /\ RouterIdle /\ MenuIdle /\ SideIdle

\* start_command: the old worker of chat_data is cleaned up, a new Worker is
\* constructed and stored in chat_data, and the handler awaits its run(), which
\* reaches the wait of __user_menu and holds the event loop in queue.get
StartCommand(chat) ==
  /\ loop = 0
  /\ Len(workers) < MaxWorkers
  /\ LET old_worker == chat_data[chat]
         cleaned == IF old_worker # NoWorker
                    THEN [workers EXCEPT ![old_worker] = Cleanup(@)]
                    ELSE workers
         new_worker == Len(workers) + 1
     IN /\ workers' = Append(cleaned,
                             [Worker(chat, now) EXCEPT
                                !.status = "waiting",
                                !.notices = {"conversation_open_user_menu"}])
        /\ chat_data' = [chat_data EXCEPT ![chat] = new_worker]
        /\ loop' = new_worker
  /\ handled' = Handled("start_command", chat, "conversation_open_user_menu")
  /\ UNCHANGED <<chat_workers, now, menu_manager, conversationVars, sideVars>>

\* queue.get(timeout) of the worker inside run() raises Empty: the worker
\* stops, run() sends the closing notice and start_command returns
RunTimeout ==
  /\ loop # 0
  /\ workers' = [workers EXCEPT ![loop].status = "done",
                                ![loop].session_open = FALSE,
                                ![loop].notices = @ \cup {"conversation_closed"}]
  /\ loop' = 0
  /\ handled' = Handled("start_command", workers[loop].chat, "conversation_closed")
  /\ UNCHANGED <<chat_workers, chat_data, now, menu_manager, conversationVars, sideVars>>

\* the exception leaving run() and reaching the except branch of start_command
RunFatalMutant ==
  /\ loop # 0
  /\ workers' = [workers EXCEPT ![loop].status = "raised"]
  /\ loop' = 0
  /\ handled' = Handled("start_command", workers[loop].chat, "error_starting")
  /\ UNCHANGED <<chat_workers, chat_data, now, menu_manager, conversationVars, sideVars>>

\* an exception is raised inside the try of run() (a send or a commit fails):
\* the except branch sends the fatal notice, then run() sends the closing
\* notice, closes the session and returns 0 to start_command
RunFatal ==
  /\ loop # 0
  /\ workers' = [workers EXCEPT
                   ![loop].status = "done",
                   ![loop].session_open = FALSE,
                   ![loop].notices =
                     @ \cup {"fatal_conversation_exception", "conversation_closed"}]
  /\ loop' = 0
  /\ handled' = Handled("start_command", workers[loop].chat, "conversation_closed")
  /\ UNCHANGED <<chat_workers, chat_data, now, menu_manager, conversationVars, sideVars>>

\* the text of a message as message_handler puts it on the inbox
Forwarded(text) == IF text = "menu_cancel" THEN CancelSignal ELSE TextMessage(text)

\* message_handler under ensure_menu_state (Worker.is_ready holds of every
\* constructed worker: cfg and session are set by __init__)
MessageHandler(chat, text) ==
  /\ loop = 0
  /\ LET worker == chat_data[chat]
     IN IF worker # NoWorker /\ ~IsSessionValid(workers[worker].menu_manager, now)
        THEN \* the session has expired: the worker is popped from chat_data
             /\ chat_data' = [chat_data EXCEPT ![chat] = NoWorker]
             /\ handled' = Handled("message_handler", chat, "session_expired")
             /\ UNCHANGED workers
        ELSE /\ worker = NoWorker => Len(workers) < MaxWorkers
             /\ LET w == IF worker = NoWorker THEN Len(workers) + 1 ELSE worker
                    ws0 == IF worker = NoWorker
                           THEN Append(workers,
                                  [Worker(chat, now) EXCEPT
                                     !.menu_manager = SetState(@, "main", now)])
                           ELSE workers
                    ws1 == [ws0 EXCEPT ![w].menu_manager = UpdateActivity(@, now)]
                    receiving_worker == chat_workers[chat]
                IN /\ chat_data' = [chat_data EXCEPT ![chat] = w]
                   /\ IF receiving_worker = NoWorker
                      THEN /\ workers' = ws1
                           /\ handled' = Handled("message_handler", chat,
                                                 "error_no_worker_for_chat")
                      ELSE /\ workers' = [ws1 EXCEPT ![receiving_worker].queue =
                                            Append(@, Forwarded(text))]
                           /\ handled' = Handled("message_handler", chat, "forwarded")
  /\ UNCHANGED <<chat_workers, loop, now, menu_manager, conversationVars, sideVars>>

\* callback_map of callback_query_handler: callback data -> menu state
CallbackMap ==
  [d \in (MenuStates \ {"main"}) \cup {"back"} |-> IF d = "back" THEN "main" ELSE d]

\* callback_query_handler
CallbackQueryHandler(chat, data) ==
  /\ loop = 0
  /\ LET worker == chat_data[chat]
     IN IF worker = NoWorker
        THEN /\ handled' = Handled("callback_query_handler", chat, "session_expired")
             /\ UNCHANGED workers
        ELSE IF data \in DOMAIN CallbackMap
        THEN /\ workers' = [workers EXCEPT ![worker].menu_manager =
                              SetState(@, CallbackMap[data], now)]
             /\ handled' = [Handled("callback_query_handler", chat, None)
                              EXCEPT !.answer = ShowMenu(CallbackMap[data]).answer,
                                     !.menu = ShowMenu(CallbackMap[data]).menu]
        ELSE /\ handled' = Handled("callback_query_handler", chat, "invalid_option")
             /\ UNCHANGED workers
  /\ UNCHANGED <<chat_workers, chat_data, loop, now, menu_manager, conversationVars, sideVars>>

\* the test for a missing worker left out of the condition
PreCheckoutRejectedMutant(receiving_worker, ws, p) ==
  /\ receiving_worker # NoWorker
  /\ p # ws[receiving_worker].invoice_payload

\* the condition under which pre_checkout_handler answers ok=False
PreCheckoutRejected(receiving_worker, ws, p) ==
  \/ receiving_worker = NoWorker
  \/ p # ws[receiving_worker].invoice_payload

\* pre_checkout_handler for a query of from_user with invoice_payload p
PreCheckoutHandler(from_user, p) ==
  /\ loop = 0
  /\ LET receiving_worker == chat_workers[from_user]
     IN IF PreCheckoutRejected(receiving_worker, workers, p)
        THEN /\ handled' = Handled("pre_checkout_handler", from_user, "ok_false")
             /\ UNCHANGED workers
        ELSE /\ handled' = Handled("pre_checkout_handler", from_user, "forwarded")
             /\ workers' = IF receiving_worker = NoWorker THEN workers
                           ELSE [workers EXCEPT ![receiving_worker].queue =
                                   Append(@, PreCheckout)]
  /\ UNCHANGED <<chat_workers, chat_data, loop, now, menu_manager, conversationVars, sideVars>>

\* time passes
Tick ==
  /\ now < MaxTime
  /\ now' = now + 1
  /\ UNCHANGED <<chat_workers, chat_data, workers, loop, handled, menu_manager,
                 conversationVars, sideVars>>

Texts == {"hello", "menu_cancel"}
CallbackData == {"order", "back", "cart_add"}
Payloads == {Uuids[1], Uuids[2]}

RouterNext ==
  \/ \E chat \in Chats : StartCommand(chat)
  \/ RunTimeout
  \/ RunFatal
  \/ \E chat \in Chats, text \in Texts : MessageHandler(chat, text)
  \/ \E chat \in Chats, data \in CallbackData : CallbackQueryHandler(chat, data)
  \/ \E from_user \in Chats, p \in Payloads : PreCheckoutHandler(from_user, p)
  \/ Tick

RouterSpec == RouterInit /\ [][RouterNext]_vars


(* ---------------------- the menu manager on its own -------------------- *)
\* the help label taken for the bot-info label
LabelStateMutant ==
  [command \in UserMenuItems |->
     CASE command = "menu_order" -> "order"
       [] command = "menu_order_status" -> "order_status"
       [] command = "menu_add_credit" -> "add_credit"
       [] command = "menu_language" -> "language"
       [] command = "menu_help" -> "bot_info"
       [] command = "menu_bot_info" -> "bot_info"]

\* the if/elif chain of handle_menu_command: label -> menu state
LabelState ==
  [command \in UserMenuItems |->
     CASE command = "menu_order" -> "order"
       [] command = "menu_order_status" -> "order_status"
       [] command = "menu_add_credit" -> "add_credit"
       [] command = "menu_language" -> "language"
       [] command = "menu_help" -> "help"
       [] command = "menu_bot_info" -> "bot_info"]

MenuCommands == UserMenuItems \cup {"hello"}

MenuInit == ConversationIdle /\ RouterIdle /\ MenuIdle /\ SideIdle

\* Worker.handle_menu_command(command)
HandleMenuCommand(command) ==
  /\ IF command \in DOMAIN LabelState
     THEN /\ menu_manager' = SetState(menu_manager, LabelState[command], now)
          /\ handled' = [Handled("handle_menu_command", 0, None)
                           EXCEPT !.answer = ShowMenu(LabelState[command]).answer,
                                  !.menu = ShowMenu(LabelState[command]).menu,
                                  !.returned = "True"]
     ELSE /\ handled' = [Handled("handle_menu_command", 0, "not_handled")
                           EXCEPT !.returned = "False"]
          /\ UNCHANGED menu_manager
  /\ UNCHANGED <<chat_workers, chat_data, workers, loop, now, conversationVars, sideVars>>

\* MenuManager.go_back() on the menu manager of the worker
MenuGoBack ==
  /\ menu_manager' = GoBack(menu_manager)
  /\ handled' = Handled("go_back", 0, None)
  /\ UNCHANGED <<chat_workers, chat_data, workers, loop, now, conversationVars, sideVars>>

MenuNext ==
  \/ \E command \in MenuCommands : HandleMenuCommand(command)
  \/ MenuGoBack
  \/ Tick

MenuSpec == MenuInit /\ [][MenuNext]_vars


(* --------------------------- the add-credit menu ----------------------- *)
\* selection == label in Python: a str equals a label, a telegram.Update or
\* a CancelSignal equals no str
EqualsLabel(sel, label) == sel.kind = "str" /\ sel.text = label

AddCreditItems == {"menu_cash", "menu_credit_card", "menu_cancel"}

\* cfg with the switches of the two payment methods
AddCreditConfigs ==
  {[credit_card_token |-> tok, refill_on_checkout |-> TRUE,
    min_amount |-> 100, max_amount |-> 500, fee_percentage |-> 5,
    fee_fixed |-> 0, enable_pay_with_cash |-> cash] :
     tok \in BOOLEAN, cash \in BOOLEAN}

\* __add_credit_menu has been called from the user menu and has sent its
\* keyboard
AddCreditInit ==
  /\ cfg \in AddCreditConfigs
  /\ dbCredit \in InitialCredits
  /\ dbTransactions = <<Transaction(dbCredit, 0, None, None, None)>>
  /\ dbOrders = {}
  /\ dbOrderItems = <<>>
  /\ session = EmptySession
  /\ pc = "add_credit_menu"
  /\ queue = <<>>
  /\ cart = NoCart
  /\ order = 0
  /\ credit_required = 0
  /\ payment = NoPayment
  /\ invoice = <<>>
  /\ sent = {"conversation_open_user_menu", "conversation_payment_method"}
  /\ should_stop = FALSE
  /\ stop_reason = "unknown"
  /\ stopSignal = None
  /\ checkout = "none"
  /\ nConv = 1
  /\ hw = HwIdle
  /\ invoice_payload = None
  /\ payload = None
  /\ RouterIdle
  /\ MenuIdle
  /\ SideIdle

\* __add_credit_menu from its wait on: the if/elif chain on what the wait
\* returned, which is the whole update or the CancelSignal; when the method
\* returns so does __user_menu, and run() closes the conversation
AddCreditMenu ==
  /\ pc = "add_credit_menu"
  /\ queue # <<>>
  /\ queue' = Tail(queue)
  /\ LET update == Head(queue)
         r == WaitForSpecificMessage(AddCreditItems, TRUE, update)
         selection_ == r.update
     IN IF update.kind = "StopSignal"
        THEN GracefulStop(update)
        ELSE IF r.status = "continue"
        THEN KeepWaiting
        ELSE IF EqualsLabel(selection_, "menu_cash") /\ cfg.enable_pay_with_cash
        THEN /\ Close({"payment_cash"})
             /\ UNCHANGED <<cfg, cart, order, credit_required, payment, invoice,
                            should_stop, stop_reason, stopSignal, checkout, nConv,
                            hw, invoice_payload, payload, routerVars, sideVars>>
        ELSE IF EqualsLabel(selection_, "menu_credit_card") /\ cfg.credit_card_token
        THEN \* __add_credit_cc up to its wait
             /\ sent' = sent \cup {"payment_cc_amount"}
             /\ prompts' = prompts + 1
             /\ pc' = "add_credit_cc"
             /\ UNCHANGED <<cfg, dbVars, session, cart, order, credit_required,
                            payment, invoice, should_stop, stop_reason, stopSignal,
                            checkout, nConv, hw, invoice_payload, payload,
                            routerVars, feeCall, dbAdmins, notified, adminVars,
                            process>>
        ELSE \* a CancelSignal, or no branch taken: the method returns
             /\ Close({})
             /\ UNCHANGED <<cfg, cart, order, credit_required, payment, invoice,
                            should_stop, stop_reason, stopSignal, checkout, nConv,
                            hw, invoice_payload, payload, routerVars, sideVars>>

AddCreditEvents ==
  {TextMessage("menu_cash"), TextMessage("menu_credit_card"),
   TextMessage("hello"), StickerMessage, CancelSignal}

AddCreditNext ==
  \/ \E reason \in {"restarted"} : Stop(reason)
  \/ \E update \in AddCreditEvents : QueuePut(update)
  \/ Timeout
  \/ AddCreditMenu

AddCreditSpec == AddCreditInit /\ [][AddCreditNext]_vars

(* ------------------------- the end of the process ---------------------- *)
\* SIGINT or SIGTERM: the handler main() registered sets _shutdown_event,
\* BotApplication.run cancels the polling and enters shutdown(); no worker is
\* told anything
Signal ==
  /\ process = "running"
  /\ process' = "stopping"
  /\ UNCHANGED <<conversationVars, routerVars, feeCall, dbAdmins, notified,
                 adminVars, prompts>>

\* shutdown(): app.stop() returns once the handler in progress, and so the
\* conversation it runs, has returned; then the engine is disposed, main()
\* cancels what tasks are left and closes the loop
Exit ==
  /\ process = "stopping"
  /\ pc \notin RunningPcs
  /\ process' = "exited"
  /\ UNCHANGED <<conversationVars, routerVars, feeCall, dbAdmins, notified,
                 adminVars, prompts>>

\* the conversation while the process winds down: nothing new is polled
ShutdownNext ==
  \/ Signal
  \/ Exit
  \/ process = "running" /\ Start
  \/ process = "running" /\ \E reason \in {"restarted"} : Stop(reason)
  \/ process = "running" /\ \E update \in Events : QueuePut(update)
  \/ process # "exited" /\ Timeout
  \/ process # "exited" /\ UserMenu
  \/ process # "exited" /\ OrderMenuCart
  \/ process # "exited" /\ OrderMenuNotes
  \/ process # "exited" /\ MakePayment
  \/ process # "exited" /\ OrderMenuAfterPayment
  \/ process # "exited" /\ OrderTransaction

ShutdownSpec == Init /\ [][ShutdownNext]_vars

(* ------------------- the fee and the invoice on their own -------------- *)
FeePercentages == {0 - 150, 0 - 5, 0, 5, 150}
FeeFixed == {0 - 30, 0, 30}
FeeAmounts == {0, 100, 300, 500}

\* the configurations of the card fee
FeeConfigs ==
  {[credit_card_token |-> TRUE, refill_on_checkout |-> TRUE,
    min_amount |-> 100, max_amount |-> 500,
    fee_percentage |-> fp, fee_fixed |-> ff] :
     fp \in FeePercentages, ff \in FeeFixed}

FeeInit ==
  /\ cfg \in FeeConfigs
  /\ WorkerIdle
  /\ RouterIdle
  /\ MenuIdle
  /\ SideIdle

\* self.__get_total_fee(amount) for a Price amount
GetTotalFeeCall(amount) ==
  /\ feeCall' = FeeCall(amount)
  /\ UNCHANGED <<conversationVars, routerVars, dbAdmins, notified, adminVars, prompts, process>>

\* __make_payment(amount) up to bot.send_invoice
MakePaymentInvoice(amount) ==
  /\ feeCall' = FeeCall(amount)
  /\ invoice' = InvoicePrices(amount)
  /\ payload' = Uuid4(1)
  /\ sent' = sent \cup {"invoice"}
  /\ UNCHANGED <<cfg, dbVars, session, pc, queue, cart, order, credit_required,
                 payment, should_stop, stop_reason, stopSignal, checkout, nConv,
                 hw, invoice_payload, routerVars, dbAdmins, notified, adminVars, prompts, process>>

FeeNext ==
  \/ \E amount \in FeeAmounts : GetTotalFeeCall(amount)
  \/ \E amount \in FeeAmounts : MakePaymentInvoice(amount)

FeeSpec == FeeInit /\ [][FeeNext]_vars


(* ----------------------------- the admin menu -------------------------- *)
\* the labels __admin_menu waits for
AdminMenuItems ==
  {"menu_products", "menu_orders", "menu_user_mode", "menu_edit_credit",
   "menu_transactions", "menu_csv", "menu_edit_admins"}

\* what an async method returns when it is called without await
Coroutine == "coroutine"

\* the keyboard __admin_menu builds from the flags of self.admin
Keyboard(a) ==
  (IF a.edit_products THEN {"menu_products"} ELSE {})
    \cup (IF a.receive_orders THEN {"menu_orders"} ELSE {})
    \cup (IF a.create_transactions /\ cfg.enable_create_transaction
          THEN {"menu_edit_credit"} ELSE {})
    \cup (IF a.create_transactions THEN {"menu_transactions", "menu_csv"} ELSE {})
    \cup (IF a.is_owner THEN {"menu_edit_admins"} ELSE {})
    \cup {"menu_user_mode"}

\* the products menu opened on its label alone
AdminSelectMutant(sel, a) ==
  IF sel = "menu_products" THEN "__products_menu"
  ELSE IF sel = "menu_orders" /\ a.receive_orders THEN "__orders_menu"
  ELSE IF sel = "menu_edit_credit" /\ a.create_transactions
  THEN "__create_transaction"
  ELSE IF sel = "menu_user_mode" THEN "__user_menu"
  ELSE IF sel = "menu_edit_admins" /\ a.is_owner THEN "__add_admin"
  ELSE IF sel = "menu_transactions" /\ a.create_transactions
  THEN "__transaction_pages"
  ELSE IF sel = "menu_csv" /\ a.create_transactions THEN "__transactions_file"
  ELSE None

\* the if/elif chain of __admin_menu: the method called for a selection
AdminSelect(sel, a) ==
  IF sel = "menu_products" /\ a.edit_products THEN "__products_menu"
  ELSE IF sel = "menu_orders" /\ a.receive_orders THEN "__orders_menu"
  ELSE IF sel = "menu_edit_credit" /\ a.create_transactions
  THEN "__create_transaction"
  ELSE IF sel = "menu_user_mode" THEN "__user_menu"
  ELSE IF sel = "menu_edit_admins" /\ a.is_owner THEN "__add_admin"
  ELSE IF sel = "menu_transactions" /\ a.create_transactions
  THEN "__transaction_pages"
  ELSE IF sel = "menu_csv" /\ a.create_transactions THEN "__transactions_file"
  ELSE None

\* the admin whose worker is modelled
AdminUser == 11

\* rows of the admin in the admins table
AdminRows ==
  {Admin(AdminUser, ep, ro, ct, own, FALSE) :
     ep \in BOOLEAN, ro \in BOOLEAN, ct \in BOOLEAN, own \in BOOLEAN}

\* cfg with the switch of the manual credit adjustment
AdminConfigs ==
  {[credit_card_token |-> TRUE, refill_on_checkout |-> TRUE,
    min_amount |-> 100, max_amount |-> 500, fee_percentage |-> 5,
    fee_fixed |-> 0, enable_create_transaction |-> e] : e \in BOOLEAN}

AdminInit ==
  /\ cfg \in AdminConfigs
  /\ WorkerIdle
  /\ RouterIdle
  /\ MenuIdle
  /\ feeCall = NoFee
  /\ dbAdmins \in {<<a>> : a \in AdminRows}
  /\ notified = <<>>
  /\ AdminIdle
  /\ prompts = 0
  /\ process = "running"

\* one pass of the loop of __admin_menu: the keyboard is built from self.admin
\* and sent, selection is the coroutine of the wait, called without await, and
\* the if/elif chain runs on it
AdminMenuPass(a) ==
  /\ keyboard' = Keyboard(a)
  /\ sent' = sent \cup {"conversation_open_admin_menu"}
  /\ nMenus' = nMenus + 1
  /\ selection' = Coroutine
  /\ entered' = AdminSelect(Coroutine, a)

\* Worker.__init__ and run() of an admin up to the first keyboard: the commit
\* of run() expires self.admin, its first read in __admin_menu loads the row
AdminStart ==
  /\ pc = "idle"
  /\ nConv < MaxConversations
  /\ nConv' = nConv + 1
  /\ admin' = dbAdmins[1]
  /\ AdminMenuPass(admin')
  /\ pc' = "admin_menu"
  /\ UNCHANGED <<cfg, dbVars, session, queue, cart, order, credit_required,
                 payment, invoice, should_stop, stop_reason, stopSignal,
                 checkout, hw, invoice_payload, payload, routerVars, feeCall,
                 dbAdmins, notified, prompts, process>>

\* the next pass of the loop: no commit has expired self.admin, its flags are
\* read from the loaded row
AdminMenu ==
  /\ pc = "admin_menu"
  /\ nMenus < MaxMenus
  /\ AdminMenuPass(admin)
  /\ UNCHANGED <<cfg, dbVars, session, pc, queue, cart, order, credit_required,
                 payment, invoice, should_stop, stop_reason, stopSignal,
                 checkout, nConv, hw, invoice_payload, payload, routerVars,
                 feeCall, dbAdmins, notified, admin, prompts, process>>

\* self.queue.put(update) by the router while the admin menu runs
AdminPut(update) ==
  /\ pc = "admin_menu"
  /\ Len(queue) < MaxQueue
  /\ queue' = Append(queue, update)
  /\ UNCHANGED <<cfg, dbVars, session, pc, cart, order, credit_required, payment,
                 invoice, sent, should_stop, stop_reason, stopSignal, checkout,
                 nConv, hw, invoice_payload, payload, routerVars, sideVars>>

Permissions == {"edit_products", "receive_orders", "create_transactions", "is_owner"}

\* the roster is edited by another session: a permission of the admin is
\* granted or revoked in the store
EditAdmin(permission, value) ==
  /\ dbAdmins[1][permission] # value
  /\ dbAdmins' = [dbAdmins EXCEPT ![1][permission] = value]
  /\ UNCHANGED <<conversationVars, routerVars, feeCall, notified, adminVars, prompts, process>>

AdminNext ==
  \/ AdminStart
  \/ AdminMenu
  \/ \E label \in AdminMenuItems : AdminPut(TextMessage(label))
  \/ \E permission \in Permissions, value \in BOOLEAN : EditAdmin(permission, value)

AdminSpec == AdminInit /\ [][AdminNext]_vars


(* ======================= properties of the ledger ====================== *)
\* quantity-weighted price total of the cart, entry by entry
CartTotal ==
  LET RECURSIVE Sum(_)
      Sum(ms) == IF ms = {} THEN 0
                 ELSE LET m == CHOOSE x \in ms : TRUE
                      IN cart[m].product.price * cart[m].quantity + Sum(ms \ {m})
  IN Sum(DOMAIN cart)

\* the credit the user had when the checkout read it
CreditBefore == CartTotal - credit_required

\* committed and pending rows of the order of the current checkout
LinkedTransactions == SeqFilterOrder(dbTransactions, order)
CommittedItems == SeqFilterOrder(dbOrderItems, order)

\* C1: in every committed store state every persisted Order has its linked
\* debit Transaction (a Transaction of the order with a value that is not
\* positive); an Order without it is never observable.
C1_OrderHasDebit ==
  \A o \in dbOrders :
    \E i \in 1..Len(dbTransactions) :
      dbTransactions[i].order = o /\ dbTransactions[i].value <= 0

\* C2: after a checkout aborted for insufficient balance the committed store
\* holds no Order, OrderItem or debit Transaction of that attempt, and the
\* checkout debited nothing (the credit is what it was plus a confirmed top-up).
C2_AbortLeavesNothing ==
  checkout = "aborted" =>
    /\ order \notin dbOrders
    /\ CommittedItems = <<>>
    /\ LinkedTransactions = <<>>
    /\ dbCredit = CreditBefore + payment.total_amount

\* C3: at every committed store state the credit of the user is the sum of
\* the values of the user's persisted Transactions.
C3_CreditIsSum == dbCredit = SumValues(dbTransactions)

\* C4: for every completed purchase exactly one Transaction linked to the
\* Order is persisted, its value is minus the cart total, and the credit is the
\* credit before (plus a top-up, if one intervened) minus the total, which is
\* the sum of the persisted Transactions.
C4_CompletedPurchase ==
  checkout = "completed" =>
    /\ Len(LinkedTransactions) = 1
    /\ LinkedTransactions[1].value = 0 - CartTotal
    /\ dbCredit = CreditBefore + payment.total_amount - CartTotal
    /\ ~payment.present => dbCredit = CreditBefore - CartTotal
    /\ dbCredit = SumValues(dbTransactions)

\* Scenario B: cart {A x2, B x1}, credit 2000: one Transaction of -1300, credit 700
C4_Witness ==
  /\ checkout = "completed"
  /\ cart[1].quantity = 2 /\ cart[2].quantity = 1
  /\ ~payment.present
  /\ LinkedTransactions[1].value = 0 - 1300
  /\ dbCredit = 700

\* rows of the order of the current checkout, pending or committed
OrderRows == SeqFilterOrder(session.items, order) \o CommittedItems
RowsOfProduct(p) == Len(SelectSeq(OrderRows, LAMBDA r : r.product = p))
OrderBuilt ==
  pc \in {"payment", "after_payment", "order_transaction"} \/ checkout = "completed"

\* C5: once the cart is finalized exactly one Order header is built and, for
\* each cart entry of quantity N, exactly N OrderItem rows of that product
\* belong to the Order; an entry of quantity 0 has no row.
C5_RowPerUnit ==
  OrderBuilt =>
    /\ Cardinality(dbOrders \cup session.orders) = order
    /\ order \in dbOrders \cup session.orders
    /\ \A m \in DOMAIN cart : RowsOfProduct(cart[m].product.id) = cart[m].quantity
    /\ \A i \in 1..Len(OrderRows) :
         \E m \in DOMAIN cart : cart[m].product.id = OrderRows[i].product

\* cart {A x2, B x1}: one Order with 3 OrderItem rows
C5_Witness ==
  /\ pc = "payment"
  /\ cart[1].quantity = 2 /\ cart[2].quantity = 1
  /\ session.orders = {order}
  /\ Len(OrderRows) = 3

\* C6: the step that receives a successful payment creates exactly one
\* Transaction, whose value is the amount that payment confirms and which
\* carries both charge identifiers, and recomputes the credit in that commit.
C6_ConfirmedAmount ==
  [][pc = "payment" /\ pc' = "after_payment" =>
       LET p == Head(queue).successful_payment
       IN /\ dbTransactions' =
               Append(dbTransactions,
                      [value |-> p.total_amount, order |-> 0,
                       provider |-> "Credit Card",
                       telegram_charge_id |-> p.telegram_payment_charge_id,
                       provider_charge_id |-> p.provider_payment_charge_id,
                       refunded |-> FALSE])
          /\ dbCredit' = SumValues(dbTransactions')]_vars

\* a confirmed charge of 525 against an invoice of another amount
C6_Witness ==
  /\ pc = "after_payment"
  /\ payment.total_amount = 525
  /\ invoice[1] # 525
  /\ dbTransactions[Len(dbTransactions)].value = 525
  /\ dbTransactions[Len(dbTransactions)].telegram_charge_id = "tg"


(* ==================== properties of the typed waits ==================== *)
\* the update is of the type, and satisfies the predicate, the wait is for
Matches(w, update) ==
  /\ update.kind = "Update"
  /\ CASE w.kind = "specific_message" ->
            update.message /\ update.text # None /\ update.text \in w.items
       [] w.kind = "regex" ->
            update.message /\ update.text # None
              /\ RegexSearch(w.regex, update.text) # None
       [] w.kind = "precheckoutquery" -> update.pre_checkout_query
       [] w.kind = "successfulpayment" ->
            update.message /\ update.successful_payment.present
       [] w.kind = "photo" -> update.message /\ update.photo = "sizes"
       [] w.kind = "inlinekeyboard_callback" -> update.callback_data # None

\* the wait reads the update at the head of the inbox
WaitReads == hw.status = "waiting" /\ queue # <<>> /\ queue' = Tail(queue)

ConversationUnchanged ==
  UNCHANGED <<dbVars, session, pc, cart, order, credit_required, payment,
              invoice, sent, stopSignal, checkout>>

\* C7: every typed wait consumes and discards an update that does not match
\* its type or predicate: it does not return and nothing of the conversation
\* or the ledger changes (a text message does not end the photo wait).
C7_DiscardNonMatching ==
  [][WaitReads /\ Head(queue).kind = "Update" /\ ~Matches(hw, Head(queue)) =>
       /\ hw'.status = "waiting"
       /\ hw'.result = hw.result
       /\ ConversationUnchanged]_vars

\* C8: a CancelSignal read by a wait called with cancellable = true makes the
\* wait return that CancelSignal in the same read; read by a wait called
\* without it, it is swallowed and the wait goes on waiting; the payment wait
\* of __make_payment is never ended by a CancelSignal.
C8_CancelDiscipline ==
  [][WaitReads /\ Head(queue).kind = "CancelSignal" =>
       /\ hw.cancellable =>
            /\ hw'.status = "returned"
            /\ hw'.result = [status |-> "return", type |-> "CancelSignal",
                             update |-> CancelSignal]
       /\ ~hw.cancellable => hw'.status = "waiting" /\ hw'.result = hw.result
       /\ hw.site = "__make_payment" => hw'.status = "waiting"
       /\ ConversationUnchanged]_vars

\* the payment wait of a top-up has swallowed a CancelSignal and still waits
C8_Witness ==
  /\ hw.site = "__make_payment"
  /\ hw.kind = "successfulpayment"
  /\ hw.has_read
  /\ hw.update.kind = "CancelSignal"
  /\ hw.status = "waiting"

(* ====================== properties of stop and timeout ================= *)
\* the worker, suspended at a wait, reads the update at the head of its inbox
WorkerReads == pc \in WaitingPcs /\ queue # <<>> /\ queue' = Tail(queue)

\* C9: once stop(reason) has been requested the worker honours it at its
\* next suspension point: the next read of the inbox does not go on waiting
\* or return a match, the conversation ends with the closing notice.
C9_StopHonoured ==
  [][should_stop /\ WorkerReads =>
       /\ pc' = "done"
       /\ "conversation_closed" \in sent'
       /\ stopSignal' = stop_reason]_vars

ConversationLocalsUnchanged ==
  UNCHANGED <<dbVars, cart, order, credit_required, payment, invoice, checkout,
              queue>>

TrackedBy(t) == <<[Worker(1, 0) EXCEPT !.invoice_payload = t]>>

C12_TokenTracked ==
  pc = "payment" =>
    /\ payload # None
    /\ invoice_payload = payload
    /\ ~PreCheckoutRejected(1, TrackedBy(invoice_payload), payload)

\* C13: the inbox of a chat is one FIFO queue: a routed event is appended
\* behind the events that arrived before it, and every read of a wait consumes
\* exactly the oldest event of the inbox, matched or discarded, so two events
\* are read in the order they were routed.
C13_FifoInbox ==
  [][queue' # queue =>
       \/ \E e \in WaitEvents : queue' = Append(queue, e)
       \/ /\ queue # <<>>
          /\ queue' = Tail(queue)
          /\ hw'.has_read
          /\ hw'.update = Head(queue)]_vars

\* the wait has read (and discarded) the older of two events; the younger one
\* is still in the inbox
C13_Witness ==
  /\ hw.status = "waiting"
  /\ hw.has_read
  /\ hw.update = TextMessage("hello")
  /\ queue = <<StickerMessage>>

\* the registry of active workers the router routes text and payment events by
Registry == chat_workers

\* C14: a restart trigger for a chat that already has a Worker stops that
\* Worker with reason "restarted" and constructs a fresh one; afterwards the
\* registry holds the new Worker, and only it, for the chat, and a Worker that
\* is not in the registry receives no further event.
C14_RestartReplaces ==
  [][/\ \A c \in Chats :
          StartCommand(c) /\ chat_data[c] # NoWorker =>
            LET old == chat_data[c]
                new == Len(workers')
            IN /\ workers'[old].should_stop
               /\ workers'[old].stop_reason = "restarted"
               /\ new = Len(workers) + 1
               /\ workers'[new].chat = c
               /\ chat_data'[c] = new
               /\ Registry'[c] = new
     /\ \A w \in 1..Len(workers) :
          Registry'[workers[w].chat] # w => workers'[w].queue = workers[w].queue]_vars

\* C15: the router keeps one registry keyed by chat: the Worker a start trigger
\* created for a chat is the entry of the registry for that chat, and a later
\* text event of the chat (its session still valid) is put on the inbox of
\* that Worker.
C15_OneRegistry ==
  [][/\ \A c \in Chats : StartCommand(c) => Registry'[c] = Len(workers')
     /\ \A c \in Chats, t \in Texts :
          /\ MessageHandler(c, t)
          /\ chat_data[c] # NoWorker
          /\ workers[chat_data[c]].status # "constructed"
          /\ IsSessionValid(workers[chat_data[c]].menu_manager, now)
          => workers'[chat_data[c]].queue =
               Append(workers[chat_data[c]].queue, Forwarded(t))]_vars

\* the worker consumes an event of its inbox in this step
Consumes(w) == Len(workers'[w].queue) < Len(workers[w].queue)

\* C16: while a worker is inside its conversation no router handler runs, and
\* the menu state of a worker changes only in a step in which that worker
\* consumes an event of its inbox: no router handler sets it directly.
C16_OnlyThroughInbox ==
  [][/\ loop # 0 => handled' = handled \/ handled'.handler = "start_command"
     /\ \A w \in 1..Len(workers) :
          \/ /\ workers'[w].menu_manager.current_state
                  = workers[w].menu_manager.current_state
             /\ workers'[w].menu_manager.previous_state
                  = workers[w].menu_manager.previous_state
          \/ Consumes(w)]_vars

\* C17: while a worker is suspended waiting for its next inbox event the
\* router is still able to run its handlers, for the chat of that worker and
\* for every other chat.
C17_CooperativeWait ==
  (\E w \in 1..Len(workers) : workers[w].status = "waiting") =>
    /\ loop = 0
    /\ \A c \in Chats : ENABLED CallbackQueryHandler(c, "back")

\* C18: once the session of a worker has expired the menu manager does not
\* report its state as current, no event changes its menu state or refreshes
\* its activity clock, and an event handled for its chat discards the worker.
C18_ExpiredNotResumed ==
  [][\A w \in 1..Len(workers) :
       ~IsSessionValid(workers[w].menu_manager, now) =>
         /\ GetState(workers[w].menu_manager) = None
         /\ workers'[w].menu_manager = workers[w].menu_manager
         /\ /\ handled'.handler \in {"message_handler", "callback_query_handler"}
            /\ handled' # handled
            /\ handled'.chat = workers[w].chat
            => chat_data'[workers[w].chat] # w]_vars

\* C19: every operation that changes the current menu state (set_state on a
\* menu label, go_back) leaves last_activity at the time of that transition.
C19_TransitionRefreshes ==
  [][menu_manager'.current_state # menu_manager.current_state =>
       menu_manager'.last_activity = now']_vars

(* ====================== properties of the checkout ===================== *)
\* card refill on checkout is enabled: a card token is configured and the
\* refill_on_checkout switch is on
CardRefillEnabled == cfg.credit_card_token /\ cfg.refill_on_checkout

\* the notes wait returned and __order_menu built the Order in this step
CartFinalized == pc = "notes" /\ order = 0 /\ order' # 0

\* C21: at checkout a top-up invoice is issued exactly when the shortfall
\* total - credit is > 0, card refill on checkout is enabled and the shortfall
\* lies within [min_amount, max_amount]; the base amount of the invoice is the
\* shortfall; and after the top-up the debit is made only if the credit,
\* re-read, covers the total, else nothing is debited.
C21_RefillOnShortfall ==
  [][/\ CartFinalized =>
          LET shortfall == CartTotal - dbCredit
          IN /\ pc' = "payment" <=>
                  /\ shortfall > 0
                  /\ CardRefillEnabled
                  /\ cfg.min_amount <= shortfall
                  /\ shortfall <= cfg.max_amount
             /\ pc' = "payment" =>
                  /\ invoice'[1] = shortfall
                  /\ "invoice" \in sent'
                  /\ dbTransactions' = dbTransactions
             /\ pc' # "payment" => invoice' = <<>> /\ "invoice" \notin sent'
     /\ pc = "after_payment" /\ pc' # pc =>
          IF dbCredit >= CartTotal
          THEN /\ pc' = "order_transaction"
               /\ dbTransactions' =
                    Append(dbTransactions,
                           Transaction(0 - CartTotal, order, None, None, None))
          ELSE /\ checkout' = "aborted"
               /\ dbTransactions' = dbTransactions]_vars

\* a shortfall of 300 was invoiced, the top-up was confirmed and the checkout
\* went on to the debit after the credit was read again
C21_Witness ==
  /\ pc = "order_transaction"
  /\ credit_required = 300
  /\ invoice[1] = 300
  /\ payment.present
  /\ dbCredit >= CartTotal

(* ================= properties of the fee and the invoice =============== *)
\* C22: for every amount and every fee configuration, negative ones included,
\* the fee __get_total_fee returns is max(0, amount * fee_percentage / 100 +
\* fee_fixed) (compared in hundredths), it is never negative, and evaluating
\* it again on the same inputs gives the same value.
C22_FeeFormula ==
  feeCall.called =>
    LET hundredths == feeCall.amount * cfg.fee_percentage + 100 * cfg.fee_fixed
    IN /\ 100 * feeCall.value = (IF hundredths > 0 THEN hundredths ELSE 0)
       /\ feeCall.value >= 0
       /\ feeCall.value = GetTotalFee(feeCall.amount)

\* C23: every invoice __make_payment issues has one base price line equal to
\* the requested amount, followed by one fee line exactly when the fee it
\* computed is > 0; a fee line is the fee and is never 0 or negative.
C23_InvoiceLines ==
  [][invoice' # invoice /\ invoice' # <<>> =>
         /\ feeCall'.called
         /\ invoice'[1] = feeCall'.amount
         /\ Len(invoice') = (IF feeCall'.value > 0 THEN 2 ELSE 1)
         /\ Len(invoice') = 2 =>
              invoice'[2] = feeCall'.value /\ invoice'[2] > 0]_vars

\* an invoice of 300 with a fee line of 30
C23_Witness ==
  /\ invoice = <<300, 30>>
  /\ feeCall = [called |-> TRUE, amount |-> 300, value |-> 30]
  /\ cfg.fee_fixed = 30

(* ================== properties of the order notification =============== *)
\* the times a chat occurs in a sequence of notified chats
TimesNotified(seq, user_id) == Len(SelectSeq(seq, LAMBDA u : u = user_id))

\* the step in which a checkout completes
CheckoutCompletes == checkout # "completed" /\ checkout' = "completed"

\* C24: in the step that completes a checkout the Order and its debit
\* Transaction are committed, the buyer is notified, and the new-order
\* notification is sent exactly once to every Admin whose live_mode is true
\* and to no Admin whose live_mode is false; no other step (an aborted
\* checkout among them) sends such a notification.
C24_LiveAdminsNotified ==
  [][/\ CheckoutCompletes =>
          /\ order' \in dbOrders'
          /\ \E i \in 1..Len(dbTransactions') :
               dbTransactions'[i].order = order' /\ dbTransactions'[i].value <= 0
          /\ "success_order_created" \in sent'
          /\ \A i \in 1..Len(dbAdmins) :
               TimesNotified(notified', dbAdmins[i].user_id) =
                 TimesNotified(notified, dbAdmins[i].user_id)
                   + (IF dbAdmins[i].live_mode THEN 1 ELSE 0)
          /\ Len(notified') = Len(notified)
               + Cardinality({i \in 1..Len(dbAdmins) : dbAdmins[i].live_mode})
     /\ ~CheckoutCompletes => notified' = notified]_vars

\* a completed checkout with admins 11 and 13 subscribed and admin 12 not:
\* 11 and 13 were notified, once each
C24_Witness ==
  /\ checkout = "completed"
  /\ dbAdmins[1].live_mode /\ ~dbAdmins[2].live_mode /\ dbAdmins[3].live_mode
  /\ notified = <<11, 13>>

(* ==================== properties of failing commits ==================== *)
\* a commit of the checkout raises in this step
CommitFailed == checkout # "failed" /\ checkout' = "failed"

\* C28: when a commit of a checkout fails the whole attempt is rolled back:
\* the committed store holds no Order, OrderItem or Transaction of the order
\* of that attempt, the credit is what it was before the attempt (plus a
\* top-up the provider confirmed), and the user has been sent the failure
\* notice and the closing notice.
C28_CommitFailureRollsBack ==
  [][CommitFailed =>
       /\ order' \notin dbOrders'
       /\ SeqFilterOrder(dbOrderItems', order') = <<>>
       /\ SeqFilterOrder(dbTransactions', order') = <<>>
       /\ dbCredit' \in {CreditBefore', CreditBefore' + payment'.total_amount}
       /\ {"fatal_conversation_exception", "conversation_closed"} \subseteq sent'
       /\ pc' = "done"]_vars

(* ==================== properties of the top-up prompt ================== *)
\* the amount prompt is about to consume a text whose amount cannot be taken:
\* not an integer, above max_amount or below min_amount
BadAmount ==
  /\ pc = "add_credit_cc"
  /\ queue # <<>>
  /\ queue' = Tail(queue)
  /\ LET update == Head(queue)
         number == RegexSearch(AmountRegex, update.text)
     IN /\ update.kind = "Update" /\ update.message
        /\ number \notin {None, "menu_cancel"}
        /\ \/ ~PriceOf(number).ok
           \/ PriceOf(number).value > cfg.max_amount
           \/ PriceOf(number).value < cfg.min_amount

AmountErrors ==
  {"error_payment_amount_over_max", "error_payment_amount_under_min"}

\* C29: in the amount prompt of the card top-up a malformed or out-of-range
\* amount gets an error notice and the same prompt again; it does not end the
\* conversation and no invoice is issued.
C29_BadAmountReprompts ==
  [][BadAmount =>
       /\ pc' = "add_credit_cc"
       /\ prompts' = prompts + 1
       /\ (sent' \ sent) \cap AmountErrors # {}
       /\ "conversation_closed" \notin sent'
       /\ invoice' = <<>>]_vars

(* ==================== properties of the shutdown ======================= *)
\* the worker has been asked to stop: its flag is set or a StopSignal is in
\* its inbox
AskedToStop ==
  \/ should_stop
  \/ \E i \in 1..Len(queue) : queue[i].kind = "StopSignal"

\* rows added to the session and not yet committed or rolled back
PendingRows ==
  session.orders # {} \/ session.items # <<>> \/ session.transactions # <<>>

\* C30: on a termination signal a worker that is live is asked to stop, and
\* the process does not exit while a worker has rows pending in its session.
C30_ShutdownDrainsWorkers ==
  [][/\ process = "running" /\ process' = "stopping" /\ pc \in RunningPcs
        => AskedToStop'
     /\ process' = "exited" => ~PendingRows' /\ pc' \notin RunningPcs]_vars

(* ==================== properties of fatal errors ======================= *)
\* the run() of worker w ends in this step on an exception raised inside it
FatalIn(w) ==
  /\ workers[w].status = "waiting"
  /\ workers'[w].status # "waiting"
  /\ \/ "fatal_conversation_exception" \in workers'[w].notices
     \/ workers'[w].status = "raised"

\* C27: an exception raised inside a conversation ends that conversation
\* only: run() returns to start_command without raising, the closing notice
\* has been sent and the session of the worker is closed; every other worker
\* and both registries are as they were and the router goes on handling.
C27_FatalIsContained ==
  [][\A w \in 1..Len(workers) :
       FatalIn(w) =>
         /\ workers'[w].status = "done"
         /\ "conversation_closed" \in workers'[w].notices
         /\ ~workers'[w].session_open
         /\ handled' = Handled("start_command", workers[w].chat, "conversation_closed")
         /\ loop' = 0
         /\ Len(workers') = Len(workers)
         /\ \A v \in (1..Len(workers)) \ {w} : workers'[v] = workers[v]
         /\ chat_data' = chat_data
         /\ chat_workers' = chat_workers]_vars

\* the conversation of chat 1 ended on an exception while chat 2 has a worker:
\* that worker is untouched and chat 2 was served afterwards
C27_Witness ==
  /\ Len(workers) = 2
  /\ workers[1].chat = 2 /\ workers[1].status = "done"
  /\ "fatal_conversation_exception" \notin workers[1].notices
  /\ workers[2].chat = 1 /\ workers[2].status = "done"
  /\ "fatal_conversation_exception" \in workers[2].notices
  /\ ~workers[2].session_open
  /\ handled.handler = "callback_query_handler" /\ handled.chat = 2
  /\ loop = 0

(* ===================== properties of the admin menu ==================== *)
\* the row of the admin in the store
StoreRow == dbAdmins[1]

\* C25: the permissions the admin menu acts on are read from the store each
\* time: whenever the menu is issued again after a suspension, the flags it
\* reads are those of the committed Admin row, so that an entry whose flag was
\* revoked in the store meanwhile is neither offered nor let through.
C25_PermissionsReRead ==
  [][nMenus' # nMenus =>
       /\ keyboard' = Keyboard(StoreRow')
       /\ \A label \in AdminMenuItems :
            AdminSelect(label, admin') = AdminSelect(label, StoreRow')]_vars

\* the permission flag that gates each privileged method
Gate ==
  [m \in {"__products_menu", "__orders_menu", "__create_transaction",
          "__transaction_pages", "__transactions_file", "__add_admin"} |->
     CASE m = "__products_menu" -> "edit_products"
       [] m = "__orders_menu" -> "receive_orders"
       [] m = "__add_admin" -> "is_owner"
       [] OTHER -> "create_transactions"]

\* C26: no privileged method of the admin menu is entered without its
\* permission flag being true: products need edit_products, orders
\* receive_orders, credit adjustment, transaction listing and CSV export
\* create_transactions, roster editing is_owner; for every label the user may
\* send and every combination of flags the selection opens a privileged method
\* only if its flag is true.
C26_GatedByFlag ==
  /\ entered \in DOMAIN Gate => admin[Gate[entered]] /\ StoreRow[Gate[entered]]
  /\ \A label \in AdminMenuItems \cup {"hello", Coroutine}, a \in AdminRows :
       AdminSelect(label, a) \in DOMAIN Gate => a[Gate[AdminSelect(label, a)]]

\* an admin without edit_products has the products label in its inbox, the
\* menu has run on it twice and no method was entered
C26_Witness ==
  /\ pc = "admin_menu"
  /\ ~admin.edit_products
  /\ queue = <<TextMessage("menu_products")>>
  /\ nMenus = 2
  /\ entered = None

(* ======================== properties of the cart ======================= *)
\* the cart-building loop reads the callback at the head of the inbox
CartReads ==
  /\ pc = "cart" /\ queue # <<>> /\ queue' = Tail(queue)
  /\ Head(queue).kind = "Update"
  /\ Head(queue).callback_data \in {"cart_add", "cart_remove"}

\* C20: while the cart is built an 'add' on a listed product raises the
\* quantity of that product by exactly one, a 'remove' lowers it by exactly one
\* when it is positive and changes nothing when it is zero, no other entry
\* changes, an add or remove for a message that is no cart entry changes
\* nothing, and every quantity is >= 0 in every state.
C20_CartQuantities ==
  [][/\ \A m \in DOMAIN cart : cart[m].quantity >= 0
     /\ \A m \in DOMAIN cart' : cart'[m].quantity >= 0
     /\ CartReads =>
          LET mid == Head(queue).message_id
              add == Head(queue).callback_data = "cart_add"
          IN IF mid \notin DOMAIN cart THEN cart' = cart
             ELSE /\ DOMAIN cart' = DOMAIN cart
                  /\ \A m \in DOMAIN cart \ {mid} : cart'[m] = cart[m]
                  /\ cart'[mid].product = cart[mid].product
                  /\ cart'[mid].quantity =
                       IF add THEN cart[mid].quantity + 1
                       ELSE IF cart[mid].quantity > 0 THEN cart[mid].quantity - 1
                       ELSE 0]_vars

\* two adds have raised the second product to 2, the first is still at 0 and
\* a remove for it is the next callback the loop reads
C20_Witness ==
  /\ pc = "cart"
  /\ cart[1].quantity = 0
  /\ cart[2].quantity = 2
  /\ queue = <<Callback("cart_remove", 1)>>

(* =================== properties of leaving the checkout ================ *)
\* the cart-building wait takes a CancelSignal off the inbox
CartReadsCancel ==
  /\ pc = "cart" /\ queue # <<>> /\ queue' = Tail(queue)
  /\ Head(queue).kind = "CancelSignal"

\* C31: a CancelSignal received while the cart is built aborts cart-building:
\* the loop is left, the cart is dropped with nothing pending in the session
\* and the store is as it was.
C31_CancelAbortsCart ==
  [][CartReadsCancel =>
       /\ pc' # "cart"
       /\ session' = EmptySession
       /\ UNCHANGED dbVars]_vars

\* C32: after a checkout aborted for insufficient balance the user has been
\* told, the conversation is not closed and the worker waits again for a
\* selection of the user menu.
C32_AbortReturnsToMenu ==
  [][checkout # "aborted" /\ checkout' = "aborted" =>
       /\ "error_not_enough_credit" \in sent'
       /\ "conversation_closed" \notin sent'
       /\ pc' = "user_menu"]_vars

\* ids of the products that are not deleted and have a price
Purchasable ==
  {Catalog[i].id : i \in {j \in 1..Len(Catalog) :
                            ~Catalog[j].deleted /\ Catalog[j].has_price}}

\* C33: a cart holds only products that are not deleted and have a price,
\* so only such products are counted in a total, and every OrderItem, pending
\* or committed, is of such a product.
C33_OnlyPurchasable ==
  /\ \A m \in DOMAIN cart :
       ~cart[m].product.deleted /\ cart[m].product.has_price
  /\ \A i \in 1..Len(session.items) : session.items[i].product \in Purchasable
  /\ \A i \in 1..Len(dbOrderItems) : dbOrderItems[i].product \in Purchasable

\* a checkout of both listed products has completed, with the catalog holding
\* a product without price and a deleted one
C33_Witness ==
  /\ checkout = "completed"
  /\ DOMAIN cart = {1, 2}
  /\ cart[1].quantity = 1 /\ cart[2].quantity = 1
  /\ Len(dbOrderItems) = 2
  /\ \E i \in 1..Len(Catalog) : ~Catalog[i].has_price
  /\ \E i \in 1..Len(Catalog) : Catalog[i].deleted

(* =================== properties of the callback router ================= *)
\* C34: a callback query of a chat that has a worker is put on the inbox of
\* that worker, as the last event of it, and the router does not act on it in
\* the worker's place: the menu state of the worker is left alone.
C34_CallbackForwarded ==
  [][\A c \in Chats, d \in CallbackData :
       CallbackQueryHandler(c, d) /\ chat_data[c] # NoWorker =>
         LET w == chat_data[c]
         IN /\ Len(workers'[w].queue) = Len(workers[w].queue) + 1
            /\ workers'[w].queue[Len(workers'[w].queue)].callback_data = d
            /\ workers'[w].menu_manager = workers[w].menu_manager]_vars

(* ===================== properties of the user menu ===================== *)
\* the wait of the user menu takes a CancelSignal off the inbox
UserMenuReadsCancel ==
  /\ pc = "user_menu" /\ queue # <<>> /\ queue' = Tail(queue)
  /\ Head(queue).kind = "CancelSignal"

\* C35: a CancelSignal at the wait of the user menu ends the wait with no
\* option selected and no fatal error: no fatal notice is sent and neither
\* the order menu nor the order status is entered.
C35_CancelAtUserMenu ==
  [][UserMenuReadsCancel =>
       /\ pc' # "user_menu"
       /\ "fatal_conversation_exception" \notin sent'
       /\ sent' \cap {"conversation_cart_actions", "error_no_orders", "order_status"} = {}
       /\ cart' = cart]_vars

(* ================== properties of the admin menu loop ================== *)
\* C36: the admin menu is sent again only after the worker consumed an event
\* of its inbox, and when that event is a label whose permission flag is true
\* the method of that label is entered.
C36_AdminMenuSuspends ==
  [][nMenus >= 1 /\ nMenus' = nMenus + 1 =>
       /\ queue # <<>>
       /\ queue' = Tail(queue)
       /\ AdminSelect(Head(queue).text, admin) # None
            => entered' = AdminSelect(Head(queue).text, admin)]_vars

(* ================== properties of the add-credit menu ================== *)
\* the wait of the add-credit menu returns the message with this label
AddCreditReturns(label) ==
  /\ pc = "add_credit_menu" /\ queue # <<>> /\ queue' = Tail(queue)
  /\ Head(queue).kind = "Update" /\ Head(queue).message
  /\ Head(queue).text = label

\* C37: when the wait of the add-credit menu returns the card label and a card
\* token is configured the amount prompt of the card top-up is issued; when it
\* returns the cash label and cash is enabled the cash instructions are sent;
\* never both.
C37_AddCreditDispatch ==
  [][/\ AddCreditReturns("menu_credit_card") /\ cfg.credit_card_token
          => /\ pc' = "add_credit_cc"
             /\ "payment_cc_amount" \in sent'
             /\ "payment_cash" \notin sent'
     /\ AddCreditReturns("menu_cash") /\ cfg.enable_pay_with_cash
          => /\ "payment_cash" \in sent'
             /\ "payment_cc_amount" \notin sent'
             /\ pc' # "add_credit_cc"]_vars

(* =================== properties of the message router ================== *)
\* C38: a text message of a chat whose worker is known and whose session is
\* valid puts exactly one event on the inbox of that worker: a CancelSignal
\* when the text is the cancel label, the message itself otherwise; no other
\* inbox changes, and when the chat has no worker nothing is enqueued.
C38_CancelBecomesSignal ==
  [][\A c \in Chats, t \in Texts :
       MessageHandler(c, t) =>
         IF chat_data[c] = NoWorker
         THEN \A v \in 1..Len(workers) : workers'[v].queue = workers[v].queue
         ELSE IsSessionValid(workers[chat_data[c]].menu_manager, now) =>
                LET w == chat_data[c]
                IN /\ workers'[w].queue =
                        Append(workers[w].queue,
                               IF t = "menu_cancel" THEN CancelSignal
                               ELSE TextMessage(t))
                   /\ \A v \in (1..Len(workers)) \ {w} :
                        workers'[v].queue = workers[v].queue]_vars

(* ================== properties of the menu commands ==================== *)
\* the menu state each of the six labels stands for
StateOfLabel(command) ==
  CASE command = "menu_order" -> "order"
    [] command = "menu_order_status" -> "order_status"
    [] command = "menu_add_credit" -> "add_credit"
    [] command = "menu_language" -> "language"
    [] command = "menu_help" -> "help"
    [] command = "menu_bot_info" -> "bot_info"
    [] OTHER -> None

C40_SetStateAndGoBack ==
  [][/\ menu_manager.current_state \in MenuStates
     /\ menu_manager'.current_state \in MenuStates
     /\ \A command \in UserMenuItems :
          HandleMenuCommand(command) =>
            /\ menu_manager'.current_state = LabelState[command]
            /\ menu_manager'.previous_state = menu_manager.current_state
     /\ MenuGoBack =>
          /\ IF menu_manager.previous_state # None
             THEN /\ menu_manager'.current_state = menu_manager.previous_state
                  /\ menu_manager'.previous_state = menu_manager.current_state
             ELSE menu_manager' = menu_manager
          /\ GoBack(menu_manager') = menu_manager]_vars

\* the order menu was opened from the main menu and go_back was called twice:
\* both fields are as they were before the first call
C40_Witness ==
  /\ handled.handler = "go_back"
  /\ menu_manager.current_state = "order"
  /\ menu_manager.previous_state = "main"

====
